---- MODULE Spec2Model ----
(***************************************************************************)
(* Verification model of the kit kernel (devyn/kit).                       *)
(*                                                                         *)
(*  Part I  : scheduler (kernel/scheduler.c) with process_switch and       *)
(*            process_run (kernel/process.c).                             *)
(*  Part II : frame allocator (kernel/memory.c) over the red-black tree    *)
(*            (kernel/rbtree.c).                                           *)
(***************************************************************************)
EXTENDS Integers, Sequences, FiniteSets, TLC

(***************************************************************************)
(* Bounds                                                                  *)
(***************************************************************************)
NumProcs == 4

MaxRun == 3

(***************************************************************************)
(* Part I: scheduler                                                       *)
(***************************************************************************)
NULL == 0

NONE == 0 - 1

Procs == 1..NumProcs

PROCESS_STATE_LOADING == "Loading"

PROCESS_STATE_RUNNING == "Running"

PROCESS_STATE_SLEEPING == "Sleeping"

PROCESS_STATE_DEAD == "Dead"

VARIABLES
  state,            \* process_t.state, per process
  sched_waiting,    \* process_t.sched.waiting
  run_queue_next,   \* process_t.sched.run_queue_next
  run_queue_front,  \* scheduler.c: run_queue_front
  run_queue_back,   \* scheduler.c: run_queue_back
  process_current,  \* process.h: process_current
  cpu,              \* whose kernel stack the CPU is executing on (NULL = boot stack)
  ctx,              \* where each process's kernel context stands
  call,             \* the scheduler entry each process is inside of
  saved_current,    \* history: process_current when the context called scheduler_tick
  unwoken,          \* history: called scheduler_sleep and not woken since
  run_limit,        \* how many of the processes get run
  timing,           \* the process whose wake-up latency (ahead, passed) is recorded, or NULL
  ahead,            \* history: processes in the run queue when it was woken (NONE: not woken)
  passed,           \* history: context switches to others since it was woken
  fifo,             \* history: processes enqueued and not yet dequeued, in order
  fifo_ok,          \* history: every dequeue so far returned the head of fifo
  ev,               \* history: what the last operation did
  panic             \* a DEBUG_ASSERT failed: the kernel halted

svars == <<state, sched_waiting, run_queue_next, run_queue_front, run_queue_back,
           process_current, cpu, ctx, call, saved_current, unwoken,
           run_limit, timing, ahead, passed, fifo, fifo_ok, ev, panic>>


\* The frame allocator (kernel/memory.c) and its free-region tree
VARIABLES
  root,           \* memory_free_region_tree.tree.root
  color,          \* rbtree_node_t.color, per node
  parent,         \* rbtree_node_t.parent
  left,           \* rbtree_node_t.left
  right,          \* rbtree_node_t.right
  physical_base,  \* memory_free_region_node_t.physical_base
  pages,          \* memory_free_region_node_t.pages
  total_free,     \* memory_free_region_tree.total_free
  node_count,     \* nodes handed out by memory_alloc so far
  owned,          \* history: frames held by the callers (not released)
  mev,            \* history: the last allocator call, its node and its result
  mfault          \* a DEBUG_ASSERT failed or a null pointer was followed

mvars == <<root, color, parent, left, right, physical_base, pages, total_free,
           node_count, owned, mev, mfault>>

\* A page set (kernel/paging.c) and the heap pages that hold its tables
VARIABLES
  pml4,           \* paging_pageset_t.pml4: the page of the PML4, NULL before
                  \* paging_create_pageset
  tables,         \* per table page, the entries written since it was zeroed
  table_map,      \* paging_pageset_t.table_map: the tree from the page frame
                  \* of a table to the page number of its linear address
  table_count,    \* pages handed out by memory_alloc_aligned so far
  heap_physical,  \* the page frame behind each page of the kernel heap
  map_calls,      \* paging_map calls made so far
  unmap_calls,    \* paging_unmap calls made so far
  pev,            \* history: the last paging call, its arguments and result
  pfault          \* a DEBUG_ASSERT of paging.c failed

pvars == <<pml4, tables, table_map, table_count, heap_physical, map_calls,
           unmap_calls, pev, pfault>>

\* An archive entry given to archive_verify (kernel/archive.c)
VARIABLES
  body,           \* the bytes of the entry's body
  checksum,       \* archive_entry_t.checksum
  aev             \* history: the archive_verify call made and its result

avars == <<body, checksum, aev>>

\* The stack limit that process_switch moves (kernel/process.c)
VARIABLES
  rust_stack_limit,          \* process.c:27, the limit the kernel's code checks
  process_original_kslimit,  \* process.c:25
  boot_stack_limit,          \* history: rust_stack_limit before the first switch
  lev                        \* history: the last process_switch call

lvars == <<rust_stack_limit, process_original_kslimit, boot_stack_limit, lev>>

\* The process list and the process structures (kernel/process.c)
VARIABLES
  process_list,   \* process.c:53 and the process_list_node_t nodes
  processes,      \* the process_t structures and the block at the heap's top
  user_readable,  \* the lower half of the current page set can be read
  cev,            \* history: the last process_create call
  cfault          \* the kernel stopped in process_create

cvars == <<process_list, processes, user_readable, cev, cfault>>

\* The heap of a process (kernel/process.c)
VARIABLES
  heap_length,    \* process_t.heap_length
  adjust_calls,   \* process_adjust_heap calls made so far
  hev             \* history: the last process_adjust_heap call

hvars == <<heap_length, adjust_calls, hev>>

\* The kernel's page set, the contents of the frames and the arguments of a
\* process (kernel/paging.c, kernel/process.c)
VARIABLES
  kernel_pml4,       \* the entries of paging_kernel_pageset.pml4
  kernel_table_map,  \* paging_kernel_pageset.table_map
  memory,            \* per frame, the bytes written to it
  registers,         \* process_t.registers: rdi and rsi
  gev                \* history: the last process_set_args call

gvars == <<kernel_pml4, kernel_table_map, memory, registers, gev>>

\* process_alloc and process_free called for a process (kernel/process.c)
VARIABLES
  proc_calls,     \* process_alloc and process_free calls made so far
  qev             \* history: the last process_alloc or process_free call

qvars == <<proc_calls, qev>>

\* The keyboard's event queue (kernel/keyboard.c)
VARIABLES
  keyboard_queue, \* keyboard.c:54: buffer, length, start and end
  accepted,       \* history: the events whose keyboard_enqueue returned true
  delivered,      \* history: the events keyboard_dequeue has returned
  next_key,       \* the event of the next keyboard_enqueue call
  kev             \* history: the last keyboard call

kvars == <<keyboard_queue, accepted, delivered, next_key, kev>>

\* The kernel's large heap (kernel/memory.c)
VARIABLES
  memory_heap_end,     \* memory.c:27, in pages from memory_heap_start
  memory_heap_length,  \* memory.c:29, in bytes
  heap_calls,          \* memory_alloc calls made so far
  yev                  \* history: the last memory_alloc call

yvars == <<memory_heap_end, memory_heap_length, heap_calls, yev>>

\* The memory map of the boot loader and memory_initialize (kernel/memory.c)
VARIABLES
  mmap_buffer,  \* the entries of the memory map given to memory_initialize
  iev           \* history: what memory_initialize released for each entry

ivars == <<mmap_buffer, iev>>

\* the state of the parts that most specifications leave alone
wvars == <<qvars, kvars, yvars, ivars>>

\* the state of the eight parts that came first
ovars == <<svars, mvars, pvars, avars, lvars, cvars, hvars, gvars>>

xvars == <<avars, lvars, cvars, hvars, gvars, wvars>>

\* The scheduler state as one record, so that the C functions are operators
\* from record to record.
K ==
  [state |-> state, sched_waiting |-> sched_waiting,
   run_queue_next |-> run_queue_next, run_queue_front |-> run_queue_front,
   run_queue_back |-> run_queue_back, process_current |-> process_current,
   cpu |-> cpu, ctx |-> ctx, call |-> call,
   saved_current |-> saved_current, unwoken |-> unwoken, run_limit |-> run_limit, timing |-> timing,
   ahead |-> ahead,
   passed |-> passed, fifo |-> fifo,
   fifo_ok |-> fifo_ok, ev |-> ev, panic |-> panic]

SchedCommit(k) ==
  /\ state' = k.state
  /\ sched_waiting' = k.sched_waiting
  /\ run_queue_next' = k.run_queue_next
  /\ run_queue_front' = k.run_queue_front
  /\ run_queue_back' = k.run_queue_back
  /\ process_current' = k.process_current
  /\ cpu' = k.cpu
  /\ ctx' = k.ctx
  /\ call' = k.call
  /\ saved_current' = k.saved_current
  /\ unwoken' = k.unwoken
  /\ run_limit' = k.run_limit
  /\ timing' = k.timing
  /\ ahead' = k.ahead
  /\ passed' = k.passed
  /\ fifo' = k.fifo
  /\ fifo_ok' = k.fifo_ok
  /\ ev' = k.ev
  /\ panic' = k.panic

Commit(k) ==
  /\ SchedCommit(k)
  /\ UNCHANGED <<mvars, pvars, xvars>>

NoEvent ==
  [op |-> "init", arg |-> NULL, ret |-> FALSE, deq |-> NONE, sw |-> NONE,
   tret |-> NONE, sret |-> NONE, eret |-> NONE]

Begin(k, op, arg) ==
  [k EXCEPT !.ev = [NoEvent EXCEPT !.op = op, !.arg = arg]]

\* A failed DEBUG_ASSERT is fatal: the kernel stops.
Panic(k) == [k EXCEPT !.panic = TRUE]

\* The run queue as the list of processes reached from run_queue_front
\* through sched.run_queue_next: its first NumProcs + 1 links, which is more
\* than a list without a repeated process has.
RECURSIVE Walk(_, _, _)
Walk(nxt, p, n) ==
  IF p = NULL \/ n = 0 THEN <<>> ELSE <<p>> \o Walk(nxt, nxt[p], n - 1)

QueueOf(k) == Walk(k.run_queue_next, k.run_queue_front, NumProcs + 1)

\* History of a wake of the recorded process out of its scheduler_sleep: how
\* many processes were queued ahead of it, and how many context switches to
\* other processes have happened since.  The count stops one above the number
\* of processes ahead.
NoteWoken(k, process) ==
  IF k.timing = process /\ k.call[process] = "sleep"
    THEN [k EXCEPT !.ahead[process] = Len(QueueOf(k)), !.passed[process] = 0]
    ELSE k

NoteResumed(k, process) ==
  [k EXCEPT !.ahead[process] = NONE, !.passed[process] = 0]

NoteSwitch(k, process) ==
  [NoteResumed(k, process) EXCEPT
     !.passed = [q \in Procs |->
                   IF q # process /\ k.ahead[q] # NONE /\ k.passed[q] <= k.ahead[q]
                     THEN k.passed[q] + 1
                     ELSE IF q = process THEN 0 ELSE k.passed[q]]]

\* History of the queue discipline: fifo is the order of the enqueue calls
\* still owed a dequeue.  It is kept for as long as every dequeue has returned
\* its head (and NULL exactly when it was empty); after the first dequeue that
\* did not, fifo_ok is FALSE for good and fifo is no longer kept.
NoteEnqueue(k, process) ==
  IF k.fifo_ok THEN [k EXCEPT !.fifo = Append(@, process)] ELSE k

NoteDequeue(k, ret) ==
  IF ~k.fifo_ok
    THEN k
    ELSE IF (k.fifo = <<>> /\ ret = NULL) \/ (k.fifo # <<>> /\ ret = Head(k.fifo))
           THEN [k EXCEPT !.fifo = IF @ = <<>> THEN @ ELSE Tail(@)]
           ELSE [k EXCEPT !.fifo = <<>>, !.fifo_ok = FALSE]

\* scheduler_enqueue_run (scheduler.c:73)
scheduler_enqueue_run(k, process) ==
  NoteEnqueue(
    IF k.run_queue_back = NULL
      THEN [k EXCEPT !.run_queue_front = process,
                     !.run_queue_back = process,
                     !.run_queue_next[process] = NULL]
      ELSE [k EXCEPT !.run_queue_next[k.run_queue_back] = process,
                     !.run_queue_back = process],
    process)

\* scheduler_dequeue_run (scheduler.c:87); the returned process is left in ev.deq
scheduler_dequeue_run(k) ==
  IF k.run_queue_front # NULL
    THEN LET process == k.run_queue_front
             front == k.run_queue_next[process]
         IN NoteDequeue(
              [k EXCEPT !.run_queue_front = front,
                        !.run_queue_next[process] = NULL,
                        !.run_queue_back = IF front = NULL THEN NULL ELSE @,
                        !.ev.deq = process],
              process)
    ELSE NoteDequeue([k EXCEPT !.ev.deq = NULL], NULL)

\* The return of scheduler_tick to its caller, on the stack the CPU is on.
\* The caller is the syscall (or interrupt) path the context came in by.
TickReturn(k) ==
  LET c == k.cpu
      k1 == [k EXCEPT !.ev.tret = c]
  IN CASE k.call[c] = "sleep" ->
            NoteResumed([k1 EXCEPT !.ctx[c] = "user", !.call[c] = "none",
                                   !.ev.sret = c], c)
       [] k.call[c] = "exit" ->
            \* syscall_exit: "failed to exit process"; while (true) hlt();
            [k1 EXCEPT !.ctx[c] = "hung", !.call[c] = "none", !.ev.eret = c]
       [] OTHER ->
            [k1 EXCEPT !.ctx[c] = "user", !.call[c] = "none"]

\* process_switch with the rebinding of process_current left to the first run
\* of a process: a context that is resumed keeps the old process_current
process_switch_no_rebind(k, process) ==
  LET k0 == [k EXCEPT !.ev.sw = process]
  IN IF k.state[process] # PROCESS_STATE_RUNNING
       THEN Panic(k0)
       ELSE LET old == k.cpu
                k1 == NoteSwitch([k0 EXCEPT !.cpu = process,
                                            !.ctx[old] = "switched"], process)
            IN IF k1.ctx[process] = "fresh"
                 THEN [k1 EXCEPT !.process_current = process,
                                 !.ctx[process] = "user"]
                 ELSE TickReturn(k1)

\* process_switch (process.c:490), process != NULL branch, followed by what the
\* incoming context does: a fresh context (process_asm_prepare) drops to user
\* mode, a context suspended inside scheduler_tick returns from it.
process_switch(k, process) ==
  LET k0 == [k EXCEPT !.ev.sw = process]
  IN IF k.state[process] # PROCESS_STATE_RUNNING
       THEN Panic(k0)
       ELSE LET old == k.cpu
                k1 == NoteSwitch([k0 EXCEPT !.process_current = process,
                                            !.cpu = process,
                                            !.ctx[old] = "switched"], process)
            IN IF k1.ctx[process] = "fresh"
                 THEN [k1 EXCEPT !.ctx[process] = "user"]
                 ELSE TickReturn(k1)

\* scheduler_tick, lines 54-63: a process was dequeued.
TickSwitch(k, next) ==
  LET cur == k.process_current
  IN IF next # cur
       THEN LET k1 == IF k.state[cur] = PROCESS_STATE_RUNNING
                        THEN scheduler_enqueue_run(k, cur)
                        ELSE k
            IN process_switch(k1, next)
       ELSE TickReturn(k)

\* scheduler_tick, lines 34-52: one round of the dequeue loop, up to the hlt.
TickLoop(k) ==
  LET cur == k.process_current
      d == scheduler_dequeue_run(k)
  IN IF d.ev.deq = NULL
       THEN IF d.state[cur] = PROCESS_STATE_RUNNING
              THEN TickReturn(d)
              ELSE [d EXCEPT !.sched_waiting[cur] = TRUE, !.ctx[d.cpu] = "halt"]
       ELSE TickSwitch(d, d.ev.deq)

\* scheduler_tick without the test of sched.waiting of lines 28-32
scheduler_tick_unguarded(k) ==
  LET k0 == [k EXCEPT !.saved_current[k.cpu] = k.process_current]
  IN IF k0.process_current # NULL
       THEN TickLoop(k0)
       ELSE LET d == scheduler_dequeue_run(k0)
            IN IF d.ev.deq = NULL THEN Panic(d) ELSE process_switch(d, d.ev.deq)

\* scheduler_tick (scheduler.c:22), called on the stack the CPU is on.
scheduler_tick(k) ==
  LET k0 == [k EXCEPT !.saved_current[k.cpu] = k.process_current]
  IN IF k0.process_current # NULL
       THEN IF k0.sched_waiting[k0.process_current]
              THEN [k0 EXCEPT !.ev.tret = k0.cpu]  \* line 31: back in the handler
              ELSE TickLoop(k0)
       ELSE LET d == scheduler_dequeue_run(k0)
            IN IF d.ev.deq = NULL THEN Panic(d) ELSE process_switch(d, d.ev.deq)

\* scheduler_sleep (scheduler.c:110)
scheduler_sleep(k) ==
  IF k.process_current = NULL
       \/ k.state[k.process_current] # PROCESS_STATE_RUNNING
    THEN Panic(k)
    ELSE scheduler_tick(
           [k EXCEPT !.state[k.process_current] = PROCESS_STATE_SLEEPING,
                     !.unwoken[k.process_current] = TRUE,
                     !.call[k.cpu] = "sleep"])

\* scheduler_wake (scheduler.c:119); the result is left in ev.ret
scheduler_wake(k, process) ==
  IF k.state[process] = PROCESS_STATE_SLEEPING
    THEN [scheduler_enqueue_run(
            NoteWoken([k EXCEPT !.state[process] = PROCESS_STATE_RUNNING,
                                !.unwoken[process] = FALSE], process), process)
          EXCEPT !.ev.ret = TRUE]
    ELSE [k EXCEPT !.unwoken[process] = FALSE, !.ev.ret = FALSE]

\* process_run (process.c:541)
process_run(k, process) ==
  IF k.state[process] # PROCESS_STATE_LOADING
    THEN Panic(k)
    ELSE scheduler_enqueue_run(
           [k EXCEPT !.state[process] = PROCESS_STATE_RUNNING], process)

\* process_exit, called by syscall_exit (syscall.c:66): sets state Dead and
\* switches away through the scheduler.  (Waking a process that waits for the
\* exit is a scheduler_wake before it: action Wake.)
process_exit(k) ==
  LET cur == k.process_current
  IN scheduler_tick(
       [k EXCEPT !.state[cur] = PROCESS_STATE_DEAD, !.call[k.cpu] = "exit"])

(***************************************************************************)
(* Actions of the scheduler                                                *)
(***************************************************************************)
\* The context on the CPU is executing outside the scheduler: the boot stack
\* before the scheduler was entered, or a process in user mode (from where a
\* syscall or an interrupt enters the kernel on that process's stack).
Executing ==
  /\ ~panic
  /\ \/ cpu = NULL
     \/ cpu # NULL /\ ctx[cpu] = "user"

InUser(p) == ~panic /\ cpu = p /\ ctx[p] = "user"

Halted == ~panic /\ cpu # NULL /\ ctx[cpu] = "halt"

\* process_run by the kernel at boot or by the spawn syscall; the processes
\* are numbered in the order in which they are run
ProcessRun(p) ==
  /\ Executing
  /\ state[p] = PROCESS_STATE_LOADING
  /\ p <= run_limit
  /\ \A q \in Procs : q < p => state[q] # PROCESS_STATE_LOADING
  /\ Commit(process_run(Begin(K, "run", p), p))

\* the kernel enters the scheduler from the boot stack
SchedulerEnter ==
  /\ ~panic /\ cpu = NULL
  /\ run_queue_front # NULL
  /\ Commit(scheduler_tick(Begin(K, "enter", NULL)))

\* syscall_yield (syscall.c:86), or the tick at the end of an interrupt
Yield(p) ==
  /\ InUser(p)
  /\ Commit(scheduler_tick([Begin(K, "yield", p) EXCEPT !.call[p] = "yield"]))

\* syscall_sleep (syscall.c:93)
Sleep(p) ==
  /\ InUser(p)
  /\ Commit(scheduler_sleep(Begin(K, "sleep", p)))

\* scheduler_wake from the running context (a syscall, or an interrupt handler
\* that interrupted user mode or the boot stack)
Wake(q) ==
  /\ Executing
  /\ Commit(scheduler_wake(Begin(K, "wake", q), q))

\* scheduler_wake from an interrupt handler during the idle halt of
\* scheduler_tick (interrupts are enabled between lines 46 and 48)
IrqWake(q) ==
  /\ Halted
  /\ Commit(scheduler_wake(Begin(K, "irqwake", q), q))

\* scheduler_tick from an interrupt handler during the idle halt
IrqTick ==
  /\ Halted
  /\ Commit(scheduler_tick(Begin(K, "irqtick", cpu)))

\* the hlt of line 47 is over: lines 48-50 and the next round of the loop
HaltReturn ==
  /\ Halted
  /\ Commit(TickLoop([Begin(K, "hlt", cpu)
                        EXCEPT !.sched_waiting[process_current] = FALSE]))

\* syscall_exit (syscall.c:66)
Exit(p) ==
  /\ InUser(p)
  /\ Commit(process_exit(Begin(K, "exit", p)))

SchedInit ==
  /\ state = [p \in Procs |-> PROCESS_STATE_LOADING]
  /\ sched_waiting = [p \in Procs |-> FALSE]
  /\ run_queue_next = [p \in Procs |-> NULL]
  /\ run_queue_front = NULL
  /\ run_queue_back = NULL
  /\ process_current = NULL
  /\ cpu = NULL
  /\ ctx = [p \in Procs \cup {NULL} |-> IF p = NULL THEN "boot" ELSE "fresh"]
  /\ call = [p \in Procs \cup {NULL} |-> "none"]
  /\ saved_current = [p \in Procs \cup {NULL} |-> NULL]
  /\ unwoken = [p \in Procs |-> FALSE]
  /\ run_limit \in {MaxRun, NumProcs}
  /\ timing \in {NULL, 1}
  /\ ahead = [p \in Procs |-> NONE]
  /\ passed = [p \in Procs |-> 0]
  /\ fifo = <<>>
  /\ fifo_ok = TRUE
  /\ ev = NoEvent
  /\ panic = FALSE

SchedNext ==
  \/ \E p \in Procs : ProcessRun(p)
  \/ SchedulerEnter
  \/ \E p \in Procs : Yield(p)
  \/ \E p \in Procs : Sleep(p)
  \/ \E q \in Procs : Wake(q)
  \/ \E q \in Procs : IrqWake(q)
  \/ IrqTick
  \/ HaltReturn
  \/ \E p \in Procs : Exit(p)

(***************************************************************************)
(* Part II: red-black tree (kernel/rbtree.c) and frame allocator           *)
(* (kernel/memory.c)                                                       *)
(***************************************************************************)
MaxNodes == 4

MaxFrames == 5

MaxRequest == 2

MaxAlloc == 3

Nodes == 1..MaxNodes

Frames == 0..(MaxFrames - 1)

RBTREE_COLOR_BLACK == 0

RBTREE_COLOR_RED == 1

PAGE_SIZE == 4096

\* The allocator state as one record
M ==
  [root |-> root, color |-> color, parent |-> parent, left |-> left,
   right |-> right, physical_base |-> physical_base, pages |-> pages,
   total_free |-> total_free, fault |-> mfault]

Fault(t) == [t EXCEPT !.fault = TRUE]

\* F applied to the value of e: one step of the C code after another
Then(e, F(_)) == CHOOSE r \in {F(x) : x \in {e}} : TRUE

\* rbtree_node_grandparent (rbtree.c:23)
rbtree_node_grandparent(t, node) ==
  IF node # NULL /\ t.parent[node] # NULL
    THEN t.parent[t.parent[node]]
    ELSE NULL

\* rbtree_node_uncle (rbtree.c:31)
rbtree_node_uncle(t, node) ==
  LET grandparent == rbtree_node_grandparent(t, node)
  IN IF grandparent # NULL
       THEN IF t.parent[node] = t.left[grandparent]
              THEN t.right[grandparent]
              ELSE t.left[grandparent]
       ELSE NULL

\* rbtree_node_sibling (rbtree.c:48)
rbtree_node_sibling(t, node) ==
  IF t.parent[node] # NULL
    THEN IF t.left[t.parent[node]] = node
           THEN t.right[t.parent[node]]
           ELSE t.left[t.parent[node]]
    ELSE NULL

\* rbtree_replace_node (rbtree.c:67)
rbtree_replace_node(t, new, old) ==
  LET t1 == IF new # NULL /\ t.parent[new] # NULL
              THEN IF t.left[t.parent[new]] = new
                     THEN [t EXCEPT !.left[t.parent[new]] = NULL]
                     ELSE [t EXCEPT !.right[t.parent[new]] = NULL]
              ELSE t
      t2 == IF new # NULL
              THEN [t1 EXCEPT !.parent[new] = t1.parent[old]]
              ELSE t1
  IN IF t2.parent[old] = NULL
       THEN [t2 EXCEPT !.root = new]
       ELSE IF t2.left[t2.parent[old]] = old
              THEN [t2 EXCEPT !.left[t2.parent[old]] = new]
              ELSE [t2 EXCEPT !.right[t2.parent[old]] = new]

\* rbtree_rotate_left (rbtree.c:103)
rbtree_rotate_left(t, node) ==
  IF t.right[node] = NULL
    THEN Fault(t)
    ELSE LET r == t.right[node]
             saved_right_left == t.left[r]
             t1 == [t EXCEPT !.left[r] = node, !.parent[r] = t.parent[node]]
             t2 == IF t1.parent[node] = NULL
                     THEN [t1 EXCEPT !.root = r]
                     ELSE IF node = t1.left[t1.parent[node]]
                            THEN [t1 EXCEPT !.left[t1.parent[node]] = r]
                            ELSE [t1 EXCEPT !.right[t1.parent[node]] = r]
             t3 == [t2 EXCEPT !.parent[node] = r, !.right[node] = saved_right_left]
         IN IF saved_right_left # NULL
              THEN [t3 EXCEPT !.parent[saved_right_left] = node]
              ELSE t3

\* rbtree_rotate_right (rbtree.c:126)
rbtree_rotate_right(t, node) ==
  IF t.left[node] = NULL
    THEN Fault(t)
    ELSE LET l == t.left[node]
             saved_left_right == t.right[l]
             t1 == [t EXCEPT !.right[l] = node, !.parent[l] = t.parent[node]]
             t2 == IF t1.parent[node] = NULL
                     THEN [t1 EXCEPT !.root = l]
                     ELSE IF node = t1.left[t1.parent[node]]
                            THEN [t1 EXCEPT !.left[t1.parent[node]] = l]
                            ELSE [t1 EXCEPT !.right[t1.parent[node]] = l]
             t3 == [t2 EXCEPT !.parent[node] = l, !.left[node] = saved_left_right]
         IN IF saved_left_right # NULL
              THEN [t3 EXCEPT !.parent[saved_left_right] = node]
              ELSE t3

\* rbtree_balance_insert, the loop for cases 1-3 (rbtree.c:166-216); done
\* tells whether the function returned from inside the loop
RECURSIVE InsertCases123(_, _)
InsertCases123(t, node) ==
  IF t.parent[node] = NULL
    THEN [t |-> [t EXCEPT !.color[node] = RBTREE_COLOR_BLACK, !.root = node],
          node |-> node, done |-> TRUE]
    ELSE IF t.color[t.parent[node]] = RBTREE_COLOR_BLACK
      THEN [t |-> t, node |-> node, done |-> TRUE]
      ELSE LET uncle == rbtree_node_uncle(t, node)
               grandparent == rbtree_node_grandparent(t, node)
           IN IF uncle # NULL /\ t.color[uncle] = RBTREE_COLOR_RED
                THEN InsertCases123(
                       [t EXCEPT !.color[t.parent[node]] = RBTREE_COLOR_BLACK,
                                 !.color[uncle] = RBTREE_COLOR_BLACK,
                                 !.color[grandparent] = RBTREE_COLOR_RED],
                       grandparent)
                ELSE [t |-> t, node |-> node, done |-> FALSE]

\* rbtree_balance_insert, case 4 (rbtree.c:244-265)
InsertCase4(t, node) ==
  LET grandparent == rbtree_node_grandparent(t, node)
      p == t.parent[node]
      FinishCase4(t1, node1) ==
        LET t2 == [t1 EXCEPT !.color[t1.parent[node1]] = RBTREE_COLOR_BLACK,
                             !.color[grandparent] = RBTREE_COLOR_RED]
        IN IF node1 = t2.left[t2.parent[node1]]
             THEN rbtree_rotate_right(t2, grandparent)
             ELSE rbtree_rotate_left(t2, grandparent)
  IN IF grandparent = NULL
       THEN Fault(t)  \* grandparent->left of a red root
       ELSE IF p = t.left[grandparent] /\ node = t.right[p]
         THEN Then(rbtree_rotate_left(t, p),
                   LAMBDA t1 : FinishCase4(t1, t1.left[node]))
         ELSE IF p = t.right[grandparent] /\ node = t.left[p]
           THEN Then(rbtree_rotate_right(t, p),
                     LAMBDA t1 : FinishCase4(t1, t1.right[node]))
           ELSE FinishCase4(t, node)

\* rbtree_balance_insert (rbtree.c:149)
rbtree_balance_insert(t, node) ==
  Then(InsertCases123([t EXCEPT !.color[node] = RBTREE_COLOR_RED], node),
       LAMBDA r : IF r.done THEN r.t ELSE InsertCase4(r.t, r.node))

BlackOrNull(t, node) == node = NULL \/ t.color[node] = RBTREE_COLOR_BLACK

\* rbtree_delete, the loop for cases 1-3 (rbtree.c:341-394); to tells where
\* the loop was left for
RECURSIVE DeleteCases123(_, _)
DeleteCases123(t, current) ==
  LET s1 == rbtree_node_sibling(t, current)
      tc == [t EXCEPT !.color[t.parent[current]] = RBTREE_COLOR_RED,
                      !.color[s1] = RBTREE_COLOR_BLACK]
      Case2(t1) ==
        LET sibling == rbtree_node_sibling(t1, current)
        IN IF t1.fault \/ sibling = NULL
             THEN [t |-> Fault(t1), current |-> current, to |-> "finish"]
             ELSE IF /\ t1.color[t1.parent[current]] = RBTREE_COLOR_BLACK
                     /\ t1.color[sibling] = RBTREE_COLOR_BLACK
                     /\ BlackOrNull(t1, t1.left[sibling])
                     /\ BlackOrNull(t1, t1.right[sibling])
                    THEN DeleteCases123(
                           [t1 EXCEPT !.color[sibling] = RBTREE_COLOR_RED],
                           t1.parent[current])
                    ELSE [t |-> t1, current |-> current, to |-> "case456"]
  IN IF t.parent[current] = NULL
       THEN [t |-> t, current |-> current, to |-> "finish"]
       ELSE IF s1 = NULL
         THEN [t |-> Fault(t), current |-> current, to |-> "finish"]
         ELSE IF t.color[s1] = RBTREE_COLOR_RED
           THEN IF current = tc.left[tc.parent[current]]
                  THEN Then(rbtree_rotate_left(tc, tc.parent[current]),
                            LAMBDA t1 : Case2(t1))
                  ELSE Then(rbtree_rotate_right(tc, tc.parent[current]),
                            LAMBDA t1 : Case2(t1))
           ELSE Case2(t)

\* rbtree_delete, case 6 (rbtree.c:490-508)
DeleteCase6(t, current, sibling) ==
  LET p == t.parent[current]
      t1 == [t EXCEPT !.color[sibling] = t.color[p], !.color[p] = RBTREE_COLOR_BLACK]
  IN IF current = t1.left[p]
       THEN IF t1.right[sibling] # NULL
                 /\ t1.color[t1.right[sibling]] = RBTREE_COLOR_RED
              THEN rbtree_rotate_left(
                     [t1 EXCEPT !.color[t1.right[sibling]] = RBTREE_COLOR_BLACK], p)
              ELSE Fault(t1)
       ELSE IF t1.left[sibling] # NULL
                 /\ t1.color[t1.left[sibling]] = RBTREE_COLOR_RED
              THEN rbtree_rotate_right(
                     [t1 EXCEPT !.color[t1.left[sibling]] = RBTREE_COLOR_BLACK], p)
              ELSE Fault(t1)

\* rbtree_delete, cases 4 to 6 (rbtree.c:396-508)
DeleteCases456(t, current) ==
  LET sibling == rbtree_node_sibling(t, current)
      p == t.parent[current]
  IN IF sibling = NULL \/ t.color[sibling] # RBTREE_COLOR_BLACK
       THEN Fault(t)
       ELSE IF /\ t.color[p] = RBTREE_COLOR_RED
               /\ BlackOrNull(t, t.left[sibling])
               /\ BlackOrNull(t, t.right[sibling])
         THEN [t EXCEPT !.color[sibling] = RBTREE_COLOR_RED,
                        !.color[p] = RBTREE_COLOR_BLACK]
         ELSE IF BlackOrNull(t, t.left[sibling]) /\ BlackOrNull(t, t.right[sibling])
           THEN Fault(t)
           ELSE IF current = t.left[p] /\ BlackOrNull(t, t.right[sibling])
             THEN Then(rbtree_rotate_right(
                         [t EXCEPT !.color[sibling] = RBTREE_COLOR_RED,
                                   !.color[t.left[sibling]] = RBTREE_COLOR_BLACK],
                         sibling),
                       LAMBDA t1 : DeleteCase6(t1, current, t1.parent[sibling]))
             ELSE IF current = t.right[p] /\ BlackOrNull(t, t.left[sibling])
               THEN Then(rbtree_rotate_left(
                           [t EXCEPT !.color[sibling] = RBTREE_COLOR_RED,
                                     !.color[t.right[sibling]] = RBTREE_COLOR_BLACK],
                           sibling),
                         LAMBDA t1 : DeleteCase6(t1, current, t1.parent[sibling]))
               ELSE DeleteCase6(t, current, sibling)

\* the leftmost node below node (rbtree.c:288-291, 526-527, 539-540)
RECURSIVE Leftmost(_, _)
Leftmost(t, node) ==
  IF t.left[node] = NULL THEN node ELSE Leftmost(t, t.left[node])

\* rbtree_delete (rbtree.c:268)
rbtree_delete(t, node) ==
  IF t.left[node] # NULL /\ t.right[node] # NULL
    THEN rbtree_replace_node(t, Leftmost(t, t.right[node]), node)
    ELSE LET child == IF t.left[node] = NULL THEN t.right[node] ELSE t.left[node]
             Finish(t1) ==
               IF t1.fault THEN t1 ELSE rbtree_replace_node(t1, NULL, node)
         IN IF t.color[node] = RBTREE_COLOR_RED
              THEN rbtree_replace_node(t, child, node)
              ELSE IF child # NULL /\ t.color[child] = RBTREE_COLOR_RED
                THEN rbtree_replace_node(
                       [t EXCEPT !.color[child] = RBTREE_COLOR_BLACK], child, node)
                ELSE IF child # NULL
                  THEN Fault(t)
                  ELSE Then(DeleteCases123(t, node),
                            LAMBDA r :
                              IF r.to = "case456" /\ ~r.t.fault
                                THEN Then(DeleteCases456(r.t, r.current),
                                          LAMBDA t1 : Finish(t1))
                                ELSE Finish(r.t))

\* rbtree_node_next (rbtree.c:532)
RECURSIVE ClimbRight(_, _)
ClimbRight(t, node) ==
  IF t.parent[node] # NULL /\ node = t.right[t.parent[node]]
    THEN ClimbRight(t, t.parent[node])
    ELSE t.parent[node]

rbtree_node_next(t, node) ==
  IF t.right[node] # NULL
    THEN Leftmost(t, t.right[node])
    ELSE ClimbRight(t, node)

\* memory_free_region_insert, the descent of lines 241-249
RECURSIVE InsertParent(_, _, _)
InsertParent(t, par, node) ==
  IF t.pages[par] <= t.pages[node] /\ t.right[par] # NULL
    THEN InsertParent(t, t.right[par], node)
    ELSE IF t.pages[par] > t.pages[node] /\ t.left[par] # NULL
           THEN InsertParent(t, t.left[par], node)
           ELSE par

\* memory_free_region_insert (memory.c:220)
memory_free_region_insert(t, node) ==
  LET Count(t1) == [t1 EXCEPT !.total_free = @ + t1.pages[node]]
  IN IF t.physical_base[node] % PAGE_SIZE # 0 \/ ~(t.pages[node] > 0)
       THEN Fault(t)
       ELSE IF t.root = NULL
         THEN Count([t EXCEPT !.root = node, !.parent[node] = NULL])
         ELSE Then(InsertParent(t, t.root, node),
                   LAMBDA par :
                     Then(rbtree_balance_insert(
                            IF t.pages[par] <= t.pages[node]
                              THEN [t EXCEPT !.parent[node] = par, !.right[par] = node]
                              ELSE [t EXCEPT !.parent[node] = par, !.left[par] = node],
                            node),
                          LAMBDA t1 : Count(t1)))

\* an acquire that serves the request from the root without looking for a
\* smaller region
AcquireGoLeft_root(t, node, req) == node

\* memory_free_region_acquire, the searches of lines 284-297
RECURSIVE AcquireGoLeft(_, _, _)
AcquireGoLeft(t, node, req) ==
  IF t.pages[node] > req /\ t.left[node] # NULL
    THEN AcquireGoLeft(t, t.left[node], req)
    ELSE node

RECURSIVE AcquireGoNext(_, _, _)
AcquireGoNext(t, node, req) ==
  IF t.pages[node] < req
    THEN Then(rbtree_node_next(t, node),
              LAMBDA next : IF next # NULL THEN AcquireGoNext(t, next, req) ELSE node)
    ELSE node

\* a port that hands out the low end of the region and leaves its base alone
SplitBase_low_end(t, node) == t.physical_base[node]

\* *physical_base of a split, from the node as re-inserted (memory.c:318)
SplitBase(t, node) == t.physical_base[node] + t.pages[node] * PAGE_SIZE

\* memory_free_region_acquire (memory.c:268); the result is the record of the
\* allocator state with the returned count and *physical_base
memory_free_region_acquire(t, req) ==
  LET Split(t2, node) ==
        Then(memory_free_region_insert(
               [t2 EXCEPT !.color[node] = RBTREE_COLOR_BLACK, !.parent[node] = NULL,
                          !.left[node] = NULL, !.right[node] = NULL,
                          !.pages[node] = @ - req],
               node),
             LAMBDA t4 :
               [t |-> t4, node |-> node, granted |-> req,
                base |-> SplitBase(t4, node)])
      Take(t1, node) ==
        IF t1.fault
          THEN [t |-> t1, node |-> node, granted |-> 0, base |-> NONE]
          ELSE IF t1.pages[node] > req
            THEN Split([t1 EXCEPT !.total_free = @ - t1.pages[node]], node)
            ELSE [t |-> [t1 EXCEPT !.total_free = @ - t1.pages[node]],
                  node |-> node, granted |-> t1.pages[node],
                  base |-> t1.physical_base[node]]
  IN IF t.root = NULL
       THEN [t |-> t, node |-> NULL, granted |-> 0, base |-> NONE]
       ELSE Then(AcquireGoNext(t, AcquireGoLeft(t, t.root, req), req),
                 LAMBDA node :
                   Then(rbtree_delete(t, node), LAMBDA t1 : Take(t1, node)))

\* memory_free_region_release (memory.c:335) with the node memory_alloc returns
memory_free_region_release(t, node, base, n) ==
  memory_free_region_insert(
    [t EXCEPT !.color[node] = RBTREE_COLOR_BLACK, !.parent[node] = NULL, !.left[node] = NULL,
              !.right[node] = NULL, !.physical_base[node] = base,
              !.pages[node] = n],
    node)

(***************************************************************************)
(* Actions of the frame allocator                                          *)
(***************************************************************************)
\* the frames of the run of n pages at physical address base
Run(base, n) == {f \in Frames : base <= f * PAGE_SIZE /\ f * PAGE_SIZE < base + n * PAGE_SIZE}

\* the call gives back, as a whole, the run that the call just before it, an
\* acquire served in full, was granted
GivesBack(op, n, base) ==
  /\ op = "release"
  /\ mev.op = "acquire" /\ mev.granted = mev.req
  /\ mev.granted = n /\ mev.base = base

\* A failed call stops the kernel: the state stays as it was before the call
MStore(t, op, req, node, granted, base, runs, own) ==
  /\ IF t.fault
         THEN /\ mfault' = TRUE
              /\ mev' = [op |-> op, req |-> req, node |-> node, granted |-> 0,
                            base |-> NONE, runs |-> <<>>,
                            back |-> GivesBack(op, granted, base)]
              /\ UNCHANGED <<root, color, parent, left, right, physical_base, pages,
                             total_free, owned>>
         ELSE /\ mfault' = FALSE
              /\ mev' = [op |-> op, req |-> req, node |-> node, granted |-> granted,
                            base |-> base, runs |-> runs,
                            back |-> GivesBack(op, granted, base)]
              /\ root' = t.root
              /\ color' = t.color
              /\ parent' = t.parent
              /\ left' = t.left
              /\ right' = t.right
              /\ physical_base' = t.physical_base
              /\ pages' = t.pages
              /\ total_free' = t.total_free
              /\ owned' = own

MCommit(t, op, req, node, granted, base, runs, own) ==
  /\ UNCHANGED <<svars, pvars, xvars>>
  /\ MStore(t, op, req, node, granted, base, runs, own)

\* memory_free_region_release of a run of frames the caller holds
Release(f, n) ==
  /\ ~mfault
  /\ node_count < MaxNodes
  /\ f + n <= MaxFrames
  /\ Run(f * PAGE_SIZE, n) \subseteq owned
  /\ node_count' = node_count + 1
  /\ \E t \in {memory_free_region_release(M, node_count + 1, f * PAGE_SIZE, n)} :
       MCommit(t, "release", n, node_count + 1, n, f * PAGE_SIZE, <<>>,
               owned \ Run(f * PAGE_SIZE, n))

\* memory_free_region_acquire
Acquire(req) ==
  /\ ~mfault
  /\ \E r \in {memory_free_region_acquire(M, req)} :
       MCommit(r.t, "acquire", req, r.node, r.granted, r.base, <<>>,
               owned \cup Run(r.base, r.granted))
  /\ UNCHANGED node_count

MemInit ==
  /\ root = NULL
  /\ color = [n \in Nodes |-> RBTREE_COLOR_BLACK]
  /\ parent = [n \in Nodes |-> NULL]
  /\ left = [n \in Nodes |-> NULL]
  /\ right = [n \in Nodes |-> NULL]
  /\ physical_base = [n \in Nodes |-> 0]
  /\ pages = [n \in Nodes |-> 0]
  /\ total_free = 0
  /\ node_count = 0
  /\ owned = Frames
  /\ mev = [op |-> "init", req |-> 0, node |-> NULL, granted |-> 0, base |-> NONE,
           runs |-> <<>>, back |-> FALSE]
  /\ mfault = FALSE

MemNext ==
  \/ \E f \in Frames, n \in 1..MaxFrames : Release(f, n)
  \/ \E req \in 1..MaxRequest : Acquire(req)

\* process_alloc, the loop of lines 226-249 without its paging_map call: the
\* runs acquired as <<base, count>> and whether the request was fulfilled
RECURSIVE process_alloc(_, _, _)
process_alloc(t, remaining, runs) ==
  IF remaining > 0
    THEN Then(memory_free_region_acquire(t, remaining),
              LAMBDA r :
                IF r.t.fault \/ ~(r.granted > 0)
                  THEN [t |-> r.t, runs |-> runs, ok |-> FALSE]
                  ELSE process_alloc(r.t, remaining - r.granted,
                                     Append(runs, <<r.base, r.granted>>)))
    ELSE [t |-> t, runs |-> runs, ok |-> TRUE]

RECURSIVE SumRuns(_)
SumRuns(runs) == IF runs = <<>> THEN 0 ELSE Head(runs)[2] + SumRuns(Tail(runs))

RunsFrames(runs) == UNION {Run(runs[i][1], runs[i][2]) : i \in 1..Len(runs)}

\* process_alloc of n pages
ProcessAlloc(n) ==
  /\ ~mfault
  /\ \E r \in {process_alloc(M, n, <<>>)} :
       MCommit(r.t, "alloc", n, NULL, SumRuns(r.runs), NONE, r.runs,
               owned \cup RunsFrames(r.runs))
  /\ UNCHANGED node_count

AllocNext ==
  \/ \E f \in Frames, n \in 1..MaxFrames : Release(f, n)
  \/ \E n \in 1..MaxAlloc : ProcessAlloc(n)

\* memory_get_total_free (memory.c:215)
memory_get_total_free(t) == t.total_free

\* the nodes reached from the root of the free-region tree through left and
\* right, each as often as it is reached
RECURSIVE Subtree(_, _, _)
Subtree(t, node, depth) ==
  IF node = NULL \/ depth = 0
    THEN <<>>
    ELSE Subtree(t, t.left[node], depth - 1) \o <<node>>
           \o Subtree(t, t.right[node], depth - 1)

TreeNodes == Subtree(M, root, MaxNodes)

RECURSIVE SumPages(_)
SumPages(s) == IF s = <<>> THEN 0 ELSE pages[Head(s)] + SumPages(Tail(s))

(***************************************************************************)
(* Part III: page sets (kernel/paging.c)                                   *)
(*                                                                         *)
(* A linear address is kept as the bit fields of paging_linear64_t, a      *)
(* physical address as its page frame and its offset in the page, so that  *)
(* the shifts and masks of the code are operations on the fields.  A table *)
(* page holds the entries written since it was zeroed; every other entry   *)
(* of it is zero.  Tables live in pages of the kernel heap; the page       *)
(* number of such a page is its index in the heap, the page frame behind   *)
(* it is given by heap_physical.                                           *)
(***************************************************************************)
\* table pages the kernel heap can hand out before memory_alloc fails
MaxTables == 10

\* the largest number of pages one paging_map call asks for
MaxMapPages == 2

\* paging_map calls in a run
MaxMapCalls == 2

PAGING_PML4_SIZE == 512

PAGING_PML4_HALF == 256

PAGING_PDPT_SIZE == 512

PAGING_PD_SIZE == 512

PAGING_PT_SIZE == 512

\* paging_flags_t as the set of the flags that are on
PAGING_READONLY == "PAGING_READONLY"

PAGING_USER == "PAGING_USER"

TablePages == 1..MaxTables

\* The page set as one record
PS ==
  [pml4 |-> pml4, tables |-> tables, table_map |-> table_map,
   table_count |-> table_count, fault |-> pfault]

\* paging_linear64_t (paging.h:184)
Linear(pml4_index, pdpt_index, pd_index, pt_index, offset) ==
  [pml4_index |-> pml4_index, pdpt_index |-> pdpt_index,
   pd_index |-> pd_index, pt_index |-> pt_index, offset |-> offset]

\* linear.prefix of a canonical address: the sign extension of bit 47
LinearPrefix(linear) ==
  IF linear.pml4_index >= PAGING_PML4_HALF THEN "ffff" ELSE "0000"

\* linear.pointer += 0x1000: the carry runs through the 9-bit index fields
LinearAddPage(linear) ==
  IF linear.pt_index + 1 < PAGING_PT_SIZE
    THEN [linear EXCEPT !.pt_index = @ + 1]
    ELSE IF linear.pd_index + 1 < PAGING_PD_SIZE
      THEN [linear EXCEPT !.pt_index = 0, !.pd_index = @ + 1]
      ELSE IF linear.pdpt_index + 1 < PAGING_PDPT_SIZE
        THEN [linear EXCEPT !.pt_index = 0, !.pd_index = 0,
                            !.pdpt_index = @ + 1]
        ELSE [linear EXCEPT !.pt_index = 0, !.pd_index = 0, !.pdpt_index = 0,
                            !.pml4_index = (@ + 1) % PAGING_PML4_SIZE]

\* linear + bytes, for bytes below the size of a page
LinearAddBytes(linear, bytes) ==
  IF linear.offset + bytes < PAGE_SIZE
    THEN [linear EXCEPT !.offset = @ + bytes]
    ELSE LinearAddPage([linear EXCEPT !.offset = @ + bytes - PAGE_SIZE])

RECURSIVE LinearAddPages(_, _)
LinearAddPages(linear, n) ==
  IF n = 0 THEN linear ELSE LinearAddPages(LinearAddPage(linear), n - 1)

\* A physical address: physical >> 12 is its frame, physical & 0xfff its
\* offset
Physical(frame, offset) == [frame |-> frame, offset |-> offset]

\* physical + bytes
PhysicalAdd(physical, bytes) ==
  [frame |-> physical.frame + (physical.offset + bytes) \div PAGE_SIZE,
   offset |-> (physical.offset + bytes) % PAGE_SIZE]

\* An entry of a table; the entries never written are zero.  For the entry
\* of a PML4, PDPT or PD, page_physical is the frame of the next table.
ZeroEntry ==
  [present |-> 0, writable |-> 0, user |-> 0, page_physical |-> 0]

EntryAt(ps, table, index) ==
  IF index \in DOMAIN ps.tables[table]
    THEN ps.tables[table][index]
    ELSE ZeroEntry

SetEntry(ps, table, index, entry) ==
  [ps EXCEPT !.tables[table] = (index :> entry) @@ @]

\* paging_phy_lin_map_get, the search loop (paging.c:124-130)
RECURSIVE PhyLinMapSearch(_, _, _)
PhyLinMapSearch(map, node, page_frame) ==
  IF node = NULL \/ map.page_frame[node] = page_frame
    THEN node
    ELSE IF map.page_frame[node] < page_frame
      THEN PhyLinMapSearch(map, map.right[node], page_frame)
      ELSE PhyLinMapSearch(map, map.left[node], page_frame)

\* paging_phy_lin_map_get (paging.c:113) of a page-aligned address: the page
\* number found, or NULL
paging_phy_lin_map_get(map, page_frame) ==
  LET node == PhyLinMapSearch(map, map.root, page_frame)
  IN IF node # NULL THEN map.page_number[node] ELSE NULL

\* paging_phy_lin_map_set, the search loop (paging.c:157-166): the node found
\* and the last node before it
RECURSIVE PhyLinMapSearchParent(_, _, _, _)
PhyLinMapSearchParent(map, parent_, node, page_frame) ==
  IF node = NULL \/ map.page_frame[node] = page_frame
    THEN [node |-> node, parent |-> parent_]
    ELSE IF map.page_frame[node] < page_frame
      THEN PhyLinMapSearchParent(map, node, map.right[node], page_frame)
      ELSE PhyLinMapSearchParent(map, node, map.left[node], page_frame)

paging_phy_lin_map_set_dropped(map, page_frame, page_number) ==
  [map EXCEPT !.entries = @ + 1]

\* paging_phy_lin_map_set (paging.c:144)
paging_phy_lin_map_set(map, page_frame, page_number) ==
  Then(PhyLinMapSearchParent(map, NULL, map.root, page_frame),
       LAMBDA s :
         IF s.node = NULL
           THEN LET node == map.entries + 1
                    m1 == [map EXCEPT !.color[node] = 0,
                                      !.left[node] = NULL,
                                      !.right[node] = NULL,
                                      !.parent[node] = s.parent,
                                      !.page_frame[node] = page_frame,
                                      !.page_number[node] = page_number]
                IN IF s.parent = NULL
                     THEN [m1 EXCEPT !.root = node, !.entries = @ + 1]
                     ELSE Then(
                            rbtree_balance_insert(
                              IF page_frame < map.page_frame[s.parent]
                                THEN [m1 EXCEPT !.left[s.parent] = node]
                                ELSE [m1 EXCEPT !.right[s.parent] = node],
                              node),
                            LAMBDA m2 : [m2 EXCEPT !.entries = @ + 1])
           ELSE [map EXCEPT !.page_number[s.node] = page_number])

\* __paging_alloc_page_phy_lin (paging.c:368): the next page of the kernel
\* heap, or NULL when memory_alloc_aligned finds no memory
paging_alloc_page_phy_lin(ps) ==
  IF ps.table_count < MaxTables THEN ps.table_count + 1 ELSE NULL

\* the memory_set over a table page that was just allocated
ClearTable(ps, page) ==
  [ps EXCEPT !.table_count = page,
             !.tables[page] = [i \in {} |-> ZeroEntry]]

\* paging_map_state_t (paging.c:495), with the page set as st.ps.
\* nomem is history: the allocator failed during the call.
MapState(ps, linear, physical, requested, flags) ==
  [ps |-> ps, linear |-> linear, physical |-> physical, mapped |-> 0,
   requested |-> requested, flags |-> flags, error |-> FALSE,
   nomem |-> FALSE]

\* the PT entry __paging_map_pt writes (paging.c:776-789)
LeafEntry(st) ==
  [present |-> 1,
   writable |-> IF PAGING_READONLY \notin st.flags THEN 1 ELSE 0,
   user |-> IF PAGING_USER \in st.flags THEN 1 ELSE 0,
   page_physical |-> st.physical.frame]

LeafPresent_never(st, pt) == FALSE

\* pt_entry->present of the entry __paging_map_pt is at (paging.c:764-767)
LeafPresent(st, pt) == EntryAt(st.ps, pt, st.linear.pt_index).present = 1

\* __paging_map_pt (paging.c:754), the loop from index on
RECURSIVE MapPtLoop(_, _, _)
MapPtLoop(st, pt, index) ==
  IF st.error \/ ~(index < PAGING_PT_SIZE) \/ ~(st.mapped < st.requested)
    THEN st
    ELSE IF LeafPresent(st, pt)
      THEN [st EXCEPT !.error = TRUE]
      ELSE Then([st EXCEPT
                   !.ps = SetEntry(@, pt, st.linear.pt_index, LeafEntry(st)),
                   !.mapped = @ + 1,
                   !.linear = LinearAddPage(@),
                   !.physical = PhysicalAdd(@, PAGE_SIZE)],
                LAMBDA s : MapPtLoop(s, pt, index + 1))

paging_map_pt(st, pt) == MapPtLoop(st, pt, st.linear.pt_index)

\* The three levels above the page table have one shape: the entry is linked
\* to the table below, which is allocated when the entry is not present
LevelIndex(level, linear) ==
  CASE level = "pml4" -> linear.pml4_index
    [] level = "pdpt" -> linear.pdpt_index
    [] level = "pd" -> linear.pd_index

\* the page of the PML4 of paging_kernel_pageset: the boot code made it, it is
\* no page of the kernel heap
KernelPml4 == MaxTables + 1

\* max_index of __paging_map_pml4 and __paging_unmap_pml4 (paging.c:544-548,
\* 846-850): the higher half is refused unless the page set is the kernel's;
\* and the table sizes of the loops below
LevelMaxIndex(level, ps) ==
  CASE level = "pml4" -> IF ps.pml4 = KernelPml4
                           THEN PAGING_PML4_SIZE - 1
                           ELSE PAGING_PML4_HALF - 1
    [] level = "pdpt" -> PAGING_PDPT_SIZE - 1
    [] level = "pd" -> PAGING_PD_SIZE - 1

\* the entry is not present: allocate the table below and link it
\* (paging.c:562-592, 636-667, 705-731); table is NULL on an allocator error
MapLinkNew(st, table, index) ==
  LET below == paging_alloc_page_phy_lin(st.ps)
  IN IF below = NULL
       THEN [st |-> [st EXCEPT !.error = TRUE, !.nomem = TRUE],
             table |-> NULL]
       ELSE Then(SetEntry(ClearTable(st.ps, below), table, index,
                          [present |-> 1, writable |-> 1, user |-> 1,
                           page_physical |-> heap_physical[below]]),
                 LAMBDA ps1 :
                   [st |-> [st EXCEPT !.ps =
                              [ps1 EXCEPT !.table_map =
                                 paging_phy_lin_map_set(
                                   ps1.table_map, heap_physical[below],
                                   below)]],
                    table |-> below])

\* the entry is present: look the table below up (paging.c:593-598, 677-681,
\* 742-746); the DEBUG_ASSERT fails when the table map does not know it
MapLookUp(st, entry) ==
  LET below == paging_phy_lin_map_get(st.ps.table_map, entry.page_physical)
  IN IF below = NULL
       THEN [st |-> [st EXCEPT !.ps.fault = TRUE, !.error = TRUE],
             table |-> NULL]
       ELSE [st |-> st, table |-> below]

RECURSIVE MapLevelLoop(_, _, _, _)
\* __paging_map_pd (paging.c:685)
paging_map_pd(st, pd) ==
  MapLevelLoop("pd", st, pd, st.linear.pd_index)

\* __paging_map_pdpt (paging.c:615)
paging_map_pdpt(st, pdpt) ==
  MapLevelLoop("pdpt", st, pdpt, st.linear.pdpt_index)

\* The loop of __paging_map_pml4, __paging_map_pdpt and __paging_map_pd from
\* index on
MapLevelLoop(level, st, table, index) ==
  IF st.error \/ ~(index <= LevelMaxIndex(level, st.ps))
       \/ ~(st.mapped < st.requested)
    THEN st
    ELSE Then(LET at == LevelIndex(level, st.linear)
                  entry == EntryAt(st.ps, table, at)
              IN IF entry.present = 0
                   THEN MapLinkNew(st, table, at)
                   ELSE MapLookUp(st, entry),
              LAMBDA r :
                IF r.table = NULL
                  THEN r.st
                  ELSE Then(CASE level = "pml4" -> paging_map_pdpt(r.st, r.table)
                              [] level = "pdpt" -> paging_map_pd(r.st, r.table)
                              [] level = "pd" -> paging_map_pt(r.st, r.table),
                            LAMBDA s : MapLevelLoop(level, s, table, index + 1)))

\* __paging_map_pml4 (paging.c:540)
paging_map_pml4(st) ==
  MapLevelLoop("pml4", st, st.ps.pml4, st.linear.pml4_index)

\* paging_map (paging.c:522): the page set after the call and the number of
\* pages mapped
paging_map(ps, linear, physical, requested, flags) ==
  Then(paging_map_pml4(MapState(ps, linear, physical, requested, flags)),
       LAMBDA st : [ps |-> st.ps, mapped |-> st.mapped, nomem |-> st.nomem])

\* paging_get_entry_pointers (paging.c:254): the PT entry of a linear
\* address, with ok as the value returned
paging_get_entry_pointers(ps, linear) ==
  LET none == [ok |-> FALSE, pt_entry |-> ZeroEntry, fault |-> FALSE]
      failed == [ok |-> FALSE, pt_entry |-> ZeroEntry, fault |-> TRUE]
      pml4_entry == EntryAt(ps, ps.pml4, linear.pml4_index)
      pdpt == paging_phy_lin_map_get(ps.table_map, pml4_entry.page_physical)
      pdpt_entry == EntryAt(ps, pdpt, linear.pdpt_index)
      pd == paging_phy_lin_map_get(ps.table_map, pdpt_entry.page_physical)
      pd_entry == EntryAt(ps, pd, linear.pd_index)
      pt == paging_phy_lin_map_get(ps.table_map, pd_entry.page_physical)
      pt_entry == EntryAt(ps, pt, linear.pt_index)
  IN IF pml4_entry.present = 0 THEN none
     ELSE IF pdpt = NULL THEN failed
     ELSE IF pdpt_entry.present = 0 THEN none
     ELSE IF pd = NULL THEN failed
     ELSE IF pd_entry.present = 0 THEN none
     ELSE IF pt = NULL THEN failed
     ELSE IF pt_entry.present = 0 THEN none
     ELSE [ok |-> TRUE, pt_entry |-> pt_entry, fault |-> FALSE]

ResolveOffset_zero(linear) == 0

\* linear.offset as paging_resolve_linear_address uses it (paging.c:343)
ResolveOffset(linear) == linear.offset

\* paging_resolve_linear_address (paging.c:319) of an address in the lower
\* half: ok as the value returned, physical as *physical_address
paging_resolve_linear_address(ps, linear) ==
  LET entries == paging_get_entry_pointers(ps, linear)
  IN IF ~entries.ok
       THEN [ok |-> FALSE, physical |-> Physical(0, 0),
             fault |-> entries.fault]
       ELSE [ok |-> TRUE,
             physical |-> Physical(entries.pt_entry.page_physical,
                                   ResolveOffset(linear)),
             fault |-> FALSE]

PAGING_PDPT_4KPAGES == 512 * 512 * 512

PAGING_PD_4KPAGES == 512 * 512

PAGING_PT_4KPAGES == 512

\* linear.pointer += PAGING_PT_4KPAGES * 0x1000: one step of pd_index, the
\* carry running upwards
LinearAddPt(linear) ==
  IF linear.pd_index + 1 < PAGING_PD_SIZE
    THEN [linear EXCEPT !.pd_index = @ + 1]
    ELSE IF linear.pdpt_index + 1 < PAGING_PDPT_SIZE
      THEN [linear EXCEPT !.pd_index = 0, !.pdpt_index = @ + 1]
      ELSE [linear EXCEPT !.pd_index = 0, !.pdpt_index = 0,
                          !.pml4_index = (@ + 1) % PAGING_PML4_SIZE]

\* linear.pointer += PAGING_PD_4KPAGES * 0x1000: one step of pdpt_index
LinearAddPd(linear) ==
  IF linear.pdpt_index + 1 < PAGING_PDPT_SIZE
    THEN [linear EXCEPT !.pdpt_index = @ + 1]
    ELSE [linear EXCEPT !.pdpt_index = 0,
                        !.pml4_index = (@ + 1) % PAGING_PML4_SIZE]

\* linear.pointer += PAGING_PDPT_4KPAGES * 0x1000: one step of pml4_index
LinearAddPdpt(linear) ==
  [linear EXCEPT !.pml4_index = (@ + 1) % PAGING_PML4_SIZE]

\* paging_unmap_state_t (paging.c:802), with the page set as st.ps
UnmapState(ps, linear, requested) ==
  [ps |-> ps, linear |-> linear, unmapped |-> 0, requested |-> requested,
   error |-> FALSE]

\* linear.pointer advanced by n pages, n below the pages of a PML4 entry:
\* n times linear.pointer += 0x1000, by the page number inside the PML4 entry
LinearPlusPages(linear, n) ==
  LET page == (linear.pdpt_index * PAGING_PD_SIZE + linear.pd_index)
                 * PAGING_PT_SIZE + linear.pt_index + n
  IN [pml4_index |-> (linear.pml4_index + page \div PAGING_PDPT_4KPAGES)
                       % PAGING_PML4_SIZE,
      pdpt_index |-> (page \div PAGING_PD_4KPAGES) % PAGING_PDPT_SIZE,
      pd_index |-> (page \div PAGING_PT_4KPAGES) % PAGING_PD_SIZE,
      pt_index |-> page % PAGING_PT_SIZE,
      offset |-> linear.offset]

\* the number of times the loop of __paging_unmap_pt runs (paging.c:1018-
\* 1020): to the end of the page table or of the request
UnmapPtRuns(st) ==
  IF st.error
    THEN 0
    ELSE LET to_end == PAGING_PT_SIZE - st.linear.pt_index
             wanted == st.requested - st.unmapped
         IN IF wanted <= 0 THEN 0
            ELSE IF wanted < to_end THEN wanted ELSE to_end

\* __paging_unmap_pt (paging.c:1012): every entry the loop comes to has its
\* present bit cleared and keeps its other bits
paging_unmap_pt(st, pt) ==
  LET runs == UnmapPtRuns(st)
      from == st.linear.pt_index
      old == st.ps.tables[pt]
  IN [st EXCEPT
        !.ps.tables[pt] =
           [i \in DOMAIN old |->
              IF i >= from /\ i < from + runs /\ old[i].present = 1
                THEN [old[i] EXCEPT !.present = 0]
                ELSE old[i]],
        !.linear = LinearPlusPages(@, runs),
        !.unmapped = @ + runs]

\* the 4 KiB pages an entry of the level stands for (paging.c:864-869,
\* 909-914, 966-971)
LevelPages(level) ==
  CASE level = "pml4" -> PAGING_PDPT_4KPAGES
    [] level = "pdpt" -> PAGING_PD_4KPAGES
    [] level = "pd" -> PAGING_PT_4KPAGES

UnmapSkip_one_page(level, st) ==
  [st EXCEPT
     !.linear = CASE level = "pml4" -> LinearAddPdpt(@)
                  [] level = "pdpt" -> LinearAddPd(@)
                  [] level = "pd" -> LinearAddPt(@),
     !.unmapped = @ + 1]

\* the entry is not present: it is skipped, and the pages it stands for are
\* counted as unmapped
UnmapSkip(level, st) ==
  [st EXCEPT
     !.linear = CASE level = "pml4" -> LinearAddPdpt(@)
                  [] level = "pdpt" -> LinearAddPd(@)
                  [] level = "pd" -> LinearAddPt(@),
     !.unmapped = IF @ + LevelPages(level) > st.requested
                    THEN st.requested
                    ELSE @ + LevelPages(level)]

RECURSIVE UnmapLevelLoop(_, _, _, _)
\* __paging_unmap_pd (paging.c:953)
paging_unmap_pd(st, pd) ==
  UnmapLevelLoop("pd", st, pd, st.linear.pd_index)

\* __paging_unmap_pdpt (paging.c:894)
paging_unmap_pdpt(st, pdpt) ==
  UnmapLevelLoop("pdpt", st, pdpt, st.linear.pdpt_index)

\* The loop of __paging_unmap_pml4, __paging_unmap_pdpt and __paging_unmap_pd
\* from index on; a page set made by paging_create_pageset and paging_map
\* holds no 1 GB and no 2 MB page in its lower half
UnmapLevelLoop(level, st, table, index) ==
  IF st.error \/ ~(index <= LevelMaxIndex(level, st.ps))
       \/ ~(st.unmapped < st.requested)
    THEN st
    ELSE Then(LET entry == EntryAt(st.ps, table, LevelIndex(level, st.linear))
              IN IF entry.present = 0
                   THEN UnmapSkip(level, st)
                   ELSE Then(MapLookUp(st, entry),
                             LAMBDA r :
                               IF r.table = NULL
                                 THEN r.st
                                 ELSE CASE level = "pml4" ->
                                             paging_unmap_pdpt(r.st, r.table)
                                        [] level = "pdpt" ->
                                             paging_unmap_pd(r.st, r.table)
                                        [] level = "pd" ->
                                             paging_unmap_pt(r.st, r.table)),
              LAMBDA s : UnmapLevelLoop(level, s, table, index + 1))

\* __paging_unmap_pml4 (paging.c:842)
paging_unmap_pml4(st) ==
  UnmapLevelLoop("pml4", st, st.ps.pml4, st.linear.pml4_index)

\* paging_unmap (paging.c:826): the page set after the call and the number
\* of pages counted as unmapped
paging_unmap(ps, linear, requested) ==
  Then(paging_unmap_pml4(UnmapState(ps, linear, requested)),
       LAMBDA st : [ps |-> st.ps, unmapped |-> st.unmapped])

\* the indices of the present entries of a table
PresentAt(ps, table) ==
  {i \in DOMAIN ps.tables[table] : ps.tables[table][i].present = 1}

\* the table an entry names, as the DEBUG_ASSERT(paging_phy_lin_map_get(...))
\* of the walks finds it; NULL when the table map does not know the frame
TableOf(ps, table, index) ==
  paging_phy_lin_map_get(ps.table_map, EntryAt(ps, table, index).page_physical)

\* the PDPTs, PDs and PTs that the walk of __paging_destroy_pageset_pml4
\* (paging.c:436-496) comes to; NULL is among them when a lookup fails
DestroyPdpts(ps) ==
  {TableOf(ps, ps.pml4, i) :
     i \in {j \in PresentAt(ps, ps.pml4) : j < PAGING_PML4_HALF}}

DestroyPds(ps) ==
  UNION {{TableOf(ps, pdpt, i) : i \in PresentAt(ps, pdpt)} :
           pdpt \in DestroyPdpts(ps) \ {NULL}}

DestroyPts(ps) ==
  UNION {{TableOf(ps, pd, i) : i \in PresentAt(ps, pd)} :
           pd \in DestroyPds(ps) \ {NULL}}

\* memory_free (memory.c:195) does nothing: the heap keeps every page
memory_free(ps, page) == ps

RECURSIVE FreeAll(_, _)
FreeAll(ps, pages_) ==
  IF pages_ = {}
    THEN ps
    ELSE LET page == CHOOSE p \in pages_ : TRUE
         IN FreeAll(memory_free(ps, page), pages_ \ {page})

\* paging_phy_lin_map_clear (paging.c:245)
paging_phy_lin_map_clear(map) == [map EXCEPT !.root = NULL, !.entries = 0]

\* paging_destroy_pageset (paging.c:417) of a page set that is not the
\* kernel's
paging_destroy_pageset(ps) ==
  LET walked == DestroyPdpts(ps) \cup DestroyPds(ps) \cup DestroyPts(ps)
  IN IF NULL \in walked
       THEN [ps EXCEPT !.fault = TRUE]
       ELSE Then(FreeAll(ps, walked \cup {ps.pml4}),
                 LAMBDA ps1 :
                   [ps1 EXCEPT !.table_map = paging_phy_lin_map_clear(@)])

\* paging_create_pageset (paging.c:381): the lower half of the new PML4 is
\* zero and the table map is empty; ok is the value returned
paging_create_pageset(ps) ==
  LET page == paging_alloc_page_phy_lin(ps)
  IN IF page = NULL
       THEN [ps |-> ps, ok |-> FALSE]
       ELSE [ps |-> [ClearTable(ps, page) EXCEPT
                       !.pml4 = page,
                       !.table_map.root = NULL,
                       !.table_map.entries = 0],
             ok |-> TRUE]

PStore(ps, event) ==
  /\ UNCHANGED heap_physical
  /\ pev' = event
  /\ IF ps.fault
       THEN /\ pfault' = TRUE
            /\ UNCHANGED <<pml4, tables, table_map, table_count>>
       ELSE /\ pfault' = FALSE
            /\ pml4' = ps.pml4
            /\ tables' = ps.tables
            /\ table_map' = ps.table_map
            /\ table_count' = ps.table_count

PCommit(ps, event) ==
  /\ UNCHANGED <<svars, mvars, xvars>>
  /\ PStore(ps, event)

\* the linear addresses the calls are made with: the last two pages below a
\* page table, page directory, PDPT and lower-half boundary and the page after
\* them, whole or from the middle of the page
LinearBases ==
  {Linear(0, 0, 0, PAGING_PT_SIZE - 2, 0),
   Linear(0, 0, PAGING_PD_SIZE - 1, PAGING_PT_SIZE - 2, 0),
   Linear(0, PAGING_PDPT_SIZE - 1, PAGING_PD_SIZE - 1, PAGING_PT_SIZE - 2, 0),
   Linear(PAGING_PML4_HALF - 1, PAGING_PDPT_SIZE - 1, PAGING_PD_SIZE - 1,
          PAGING_PT_SIZE - 2, 0)}

HalfPage == 2048

LinearInputs ==
  {LinearAddBytes(LinearAddPages(b, i), off) :
     b \in LinearBases, i \in 0..2, off \in {0, HalfPage}}

FirstFrame == 16

PhysicalInputs ==
  {Physical(FirstFrame, 0), Physical(FirstFrame + 1, 0),
   Physical(FirstFrame, HalfPage)}

FlagInputs == {{}, {PAGING_READONLY, PAGING_USER}}

\* the page frames behind the pages of the kernel heap, in the order the
\* pages are handed out
HeapBase == 64

HeapPhysicalInputs ==
  {[p \in TablePages |-> HeapBase + p],
   [p \in TablePages |-> HeapBase + MaxTables - p],
   [p \in TablePages |->
      IF p % 2 = 0 THEN HeapBase + p ELSE HeapBase + 2 * MaxTables - p]}

NoCall ==
  [op |-> "none", linear |-> Linear(0, 0, 0, 0, 0), physical |-> Physical(0, 0),
   pages |-> 0, flags |-> {}, ret |-> 0, nomem |-> FALSE]

CreatePageset ==
  /\ pml4 = NULL /\ ~pfault
  /\ \E r \in {paging_create_pageset(PS)} :
       /\ r.ok
       /\ PCommit(r.ps, [NoCall EXCEPT !.op = "create"])
  /\ UNCHANGED <<map_calls, unmap_calls>>

PagingMap(linear, physical, requested, flags) ==
  /\ pml4 # NULL /\ ~pfault
  /\ map_calls < MaxMapCalls
  /\ map_calls' = map_calls + 1
  /\ UNCHANGED unmap_calls
  /\ \E r \in {paging_map(PS, linear, physical, requested, flags)} :
       PCommit(r.ps, [op |-> "map", linear |-> linear, physical |-> physical,
                      pages |-> requested, flags |-> flags, ret |-> r.mapped,
                      nomem |-> r.nomem])

PagingInit ==
  /\ pml4 = NULL
  /\ tables = [p \in TablePages |-> [i \in {} |-> ZeroEntry]]
  /\ table_map = [root |-> NULL, entries |-> 0,
                  color |-> [n \in TablePages |-> RBTREE_COLOR_BLACK],
                  parent |-> [n \in TablePages |-> NULL],
                  left |-> [n \in TablePages |-> NULL],
                  right |-> [n \in TablePages |-> NULL],
                  page_frame |-> [n \in TablePages |-> 0],
                  page_number |-> [n \in TablePages |-> 0],
                  fault |-> FALSE]
  /\ table_count = 0
  /\ map_calls = 0
  /\ unmap_calls = 0
  /\ pev = NoCall
  /\ pfault = FALSE

PagingNext ==
  \/ CreatePageset
  \/ \E linear \in LinearInputs, physical \in PhysicalInputs,
        requested \in 1..MaxMapPages, flags \in FlagInputs :
       PagingMap(linear, physical, requested, flags)

\* unmap calls in a run
MaxUnmapCalls == 1

\* the page counts paging_unmap is called with: a few pages, and more pages
\* than one page table holds
UnmapRequests == (1..MaxMapPages) \cup {PAGING_PT_4KPAGES + 1}

PageBases == {LinearAddPages(b, i) : b \in LinearBases, i \in 0..2}

\* the page set is in use: created and not destroyed
InUse == pml4 # NULL /\ ~pfault /\ pev.op # "destroy"

MapPages(linear, requested) ==
  /\ InUse
  /\ map_calls < MaxMapCalls
  /\ map_calls' = map_calls + 1
  /\ UNCHANGED unmap_calls
  /\ \E r \in {paging_map(PS, linear, Physical(FirstFrame, 0), requested, {})} :
       PCommit(r.ps, [op |-> "map", linear |-> linear,
                      physical |-> Physical(FirstFrame, 0),
                      pages |-> requested, flags |-> {}, ret |-> r.mapped,
                      nomem |-> r.nomem])

PagingUnmap(linear, requested) ==
  /\ InUse
  /\ unmap_calls < MaxUnmapCalls
  /\ unmap_calls' = unmap_calls + 1
  /\ UNCHANGED map_calls
  /\ \E r \in {paging_unmap(PS, linear, requested)} :
       PCommit(r.ps, [NoCall EXCEPT !.op = "unmap", !.linear = linear,
                                    !.pages = requested, !.ret = r.unmapped])

PagingDestroy ==
  /\ InUse
  /\ UNCHANGED <<map_calls, unmap_calls>>
  /\ \E ps1 \in {paging_destroy_pageset(PS)} :
       PCommit(ps1, [NoCall EXCEPT !.op = "destroy", !.ret = 1])

PagesetNext ==
  \/ CreatePageset
  \/ \E linear \in PageBases, requested \in 1..MaxMapPages :
       MapPages(linear, requested)
  \/ \E linear \in PageBases, requested \in UnmapRequests :
       PagingUnmap(linear, requested)
  \/ PagingDestroy

(***************************************************************************)
(* Part IV: the archive loader (archive.c)                                 *)
(***************************************************************************)
\* the longest entry body: two whole 8-byte words and one byte more
MaxBody == 17

\* the bytes of a body that are not zero, at most
MaxSet == 3

\* the values of a body's bytes
ByteInputs == {0, 165}

\* a | b and a ^ b on naturals, bit by bit
RECURSIVE BitOr(_, _)
BitOr(a, b) ==
  IF a = 0 THEN b
  ELSE IF b = 0 THEN a
  ELSE (IF a % 2 = 1 \/ b % 2 = 1 THEN 1 ELSE 0) + 2 * BitOr(a \div 2, b \div 2)

RECURSIVE BitXor(_, _)
BitXor(a, b) ==
  IF a = 0 THEN b
  ELSE IF b = 0 THEN a
  ELSE ((a + b) % 2) + 2 * BitXor(a \div 2, b \div 2)

\* a uint64_t as its eight bytes, the least significant first
ZeroWord == [k \in 0..7 |-> 0]

\* word |= ((uint64_t) byte) << (count * 8) (archive.c:99)
WordOrByte(word, byte, count) == [word EXCEPT ![count] = BitOr(@, byte)]

\* checksum ^= word (archive.c:102)
WordXor(a, b) == [k \in 0..7 |-> BitXor(a[k], b[k])]

\* the loop of archive_verify (archive.c:98-106) from byte i on; st holds
\* checksum, word and count
RECURSIVE VerifyLoop(_, _, _)
VerifyLoop(buffer, i, st) ==
  IF i > Len(buffer)
    THEN st
    ELSE LET word == WordOrByte(st.word, buffer[i], st.count)
         IN VerifyLoop(buffer, i + 1,
              IF st.count + 1 = 8
                THEN [checksum |-> WordXor(st.checksum, word),
                      word |-> ZeroWord, count |-> 0]
                ELSE [st EXCEPT !.word = word, !.count = @ + 1])

\* archive_verify (archive.c:92): entry is [length, checksum], buffer the
\* body; gives the checksum computed and the value returned
archive_verify(entry, buffer) ==
  LET st == VerifyLoop(SubSeq(buffer, 1, entry.length), 1,
                       [checksum |-> ZeroWord, word |-> ZeroWord, count |-> 0])
  IN [calculated |-> st.checksum,
      ret |-> entry.checksum = st.checksum]

NoVerify == [op |-> "none"]

\* archive_verify on the entry
ArchiveVerify ==
  /\ aev.op = "none"
  /\ \E r \in {archive_verify([length |-> Len(body), checksum |-> checksum], body)} :
       aev' = [op |-> "verify", ret |-> r.ret, calculated |-> r.calculated]
  /\ UNCHANGED <<body, checksum>>
  /\ UNCHANGED <<svars, mvars, pvars, lvars, cvars, hvars, gvars, wvars>>

\* no archive entry is looked at
ArchiveIdle == body = <<>> /\ checksum = ZeroWord /\ aev = NoVerify

\* the bodies of an entry, with up to MaxSet bytes that are not zero, and for
\* a body the checksums an archive stores
\* with it: of its whole words, of its words with the last bytes as a word
\* of their own, and either with one bit wrong
BodyInputs ==
  UNION {{b \in [1..n -> ByteInputs] :
            Cardinality({i \in 1..n : b[i] # 0}) <= MaxSet} : n \in 0..MaxBody}

WholeWords(b) == [k \in 0..7 |-> IF k + 1 <= Len(b) THEN b[k + 1] ELSE 0]

RECURSIVE XorOfWords(_)
XorOfWords(b) ==
  IF Len(b) = 0 THEN ZeroWord
  ELSE WordXor(WholeWords(b),
               XorOfWords(IF Len(b) <= 8 THEN <<>> ELSE SubSeq(b, 9, Len(b))))

ChecksumInputs(b) ==
  LET whole == XorOfWords(SubSeq(b, 1, Len(b) - (Len(b) % 8)))
      padded == XorOfWords(b)
  IN {whole, padded, [whole EXCEPT ![0] = BitXor(@, 1)],
      [padded EXCEPT ![7] = BitXor(@, 128)]}

ArchiveInit ==
  /\ body \in BodyInputs
  /\ checksum \in ChecksumInputs(body)
  /\ aev = NoVerify

ArchiveNext == ArchiveVerify

(***************************************************************************)
(* Part V: process_switch and the stack limit (process.c)                  *)
(***************************************************************************)
\* process_t.kernel_stack_base, a block of the kernel heap of the process's
\* own (process.c:172)
kernel_stack_base(process) == process

\* a value of rust_stack_limit that is no process's kernel stack and not NULL
BootStackLimit == NumProcs + 1

\* what process_switch does to rust_stack_limit and process_original_kslimit
\* (process.c:506-516, 534); l holds the two, old_process is process_current
\* at the call
SwitchLimits(l, old_process, process) ==
  IF process # NULL
    THEN IF old_process # NULL
           THEN [process_original_kslimit |-> l.rust_stack_limit,
                 rust_stack_limit |-> kernel_stack_base(process)]
           ELSE [l EXCEPT !.rust_stack_limit = kernel_stack_base(process)]
    ELSE IF old_process # NULL
           THEN [l EXCEPT !.rust_stack_limit = l.process_original_kslimit]
           ELSE l

\* process_switch (process.c:490), process == NULL branch: back to the stack
\* the kernel was on before the first switch
process_switch_kernel(k) ==
  IF k.process_current # NULL
    THEN [k EXCEPT !.process_current = NULL, !.cpu = NULL,
                   !.ctx = [@ EXCEPT ![k.cpu] = "switched", ![NULL] = "boot"],
                   !.ev.sw = NULL]
    ELSE k

\* a call of process_switch from the code that is executing
ProcessSwitch(process) ==
  /\ Executing
  /\ \E k \in {IF process # NULL
                 THEN process_switch(Begin(K, "switch", process), process)
                 ELSE process_switch_kernel(Begin(K, "switch", NULL))} :
       /\ SchedCommit(k)
       /\ \E l \in {IF k.panic
                      THEN [rust_stack_limit |-> rust_stack_limit,
                            process_original_kslimit |-> process_original_kslimit]
                      ELSE SwitchLimits(
                             [rust_stack_limit |-> rust_stack_limit,
                              process_original_kslimit |-> process_original_kslimit],
                             process_current, process)} :
            /\ rust_stack_limit' = l.rust_stack_limit
            /\ process_original_kslimit' = l.process_original_kslimit
       /\ lev' = [op |-> "switch", process |-> process,
                  old_process |-> process_current]
  /\ UNCHANGED boot_stack_limit
  /\ UNCHANGED <<mvars, pvars, avars, cvars, hvars, gvars, wvars>>

NoSwitch == [op |-> "none", process |-> NULL, old_process |-> NULL]

\* the statics of process.c are zero; rust_stack_limit holds what the kernel's
\* start-up code gave it
SwitchInit ==
  /\ rust_stack_limit \in {NULL, BootStackLimit}
  /\ boot_stack_limit = rust_stack_limit
  /\ process_original_kslimit = NULL
  /\ lev = NoSwitch

SwitchIdle ==
  /\ rust_stack_limit = BootStackLimit
  /\ boot_stack_limit = BootStackLimit
  /\ process_original_kslimit = NULL
  /\ lev = NoSwitch

SwitchNext ==
  \/ \E p \in Procs : ProcessRun(p)
  \/ \E process \in Procs \cup {NULL} : ProcessSwitch(process)

(***************************************************************************)
(* Part VI: the process list (process.c)                                   *)
(***************************************************************************)
\* process_create calls made, at most
MaxCreates == 3

\* the nodes of the process list, in the order of their allocation
ListNodes == 1..MaxCreates

\* The list node is allocated with memory_alloc(sizeof(process_list_node_t *)),
\* 8 bytes, and used as the 48 bytes of a process_list_node_t
\* (process.c:115-123): node.parent, node.left, node.right, id and process of
\* the node lie in the 40 bytes of the heap that the next memory_alloc hands
\* out.  When that is the process_t of the next process_create, the node's
\* parent is the new process's id and name[0..5], left is name[6..13], right
\* name[14..21], id name[22..23] and process name[30..37].
\*
\* the pointer that an id and the first bytes of a name make, which points
\* into the lower half of the address space
Wild(id) == MaxCreates + 1 + id

Wilds == {Wild(id) : id \in 0..(MaxCreates + 1)}

ListPointers == ListNodes \cup Wilds

\* the uint16_t at the address of a pointer variable: for a list node the low
\* bits of its address in the kernel heap
Low16(pointer) ==
  IF pointer = NULL THEN 0
  ELSE IF pointer \in Wilds THEN pointer - Wild(0)
  ELSE PAGE_SIZE + 8 * pointer

\* the list, its nodes and the process_t structures as one record
PL ==
  [root |-> process_list.root, size |-> process_list.size,
   next_id |-> process_list.next_id, nodes |-> process_list.nodes,
   color |-> process_list.color, parent |-> process_list.parent,
   left |-> process_list.left, right |-> process_list.right,
   id |-> process_list.id, process |-> process_list.process,
   top |-> processes.top, overlay |-> processes.overlay,
   state |-> processes.state, own_id |-> processes.own_id,
   count |-> processes.count, fault |-> FALSE]

\* process->id: the process_t that was allocated behind a list node has its id
\* where the node has the low bytes of node.parent
ProcessId(l, process) ==
  IF l.overlay[process] = NULL
    THEN l.own_id[process]
    ELSE Low16(l.parent[l.overlay[process]])

\* process->id = id (process.c:194)
SetProcessId(l, process, id) ==
  IF l.overlay[process] = NULL
    THEN [l EXCEPT !.own_id[process] = id]
    ELSE [l EXCEPT !.parent[l.overlay[process]] = Wild(id)]

\* memory_alloc(sizeof(process_t)), memory_set and memory_copy of a name of
\* one to six characters (process.c:155-164): the node at the top of the heap
\* loses its fields to the zeroes and the name
AllocProcess(l) ==
  LET process == l.count + 1
      node == l.top
      l1 == [l EXCEPT !.count = process, !.top = NULL,
                      !.overlay[process] = node,
                      !.state[process] = PROCESS_STATE_LOADING,
                      !.own_id[process] = 0]
  IN IF node = NULL
       THEN l1
       ELSE [l1 EXCEPT !.parent[node] = Wild(0), !.left[node] = NULL,
                       !.right[node] = NULL, !.id[node] = 0,
                       !.process[node] = NULL]

\* the memory at the addresses in Wilds as the current page set shows it: w
\* is what is read there as a process_list_node_t
LoadWild(l, w) ==
  [l EXCEPT !.color = [x \in ListPointers |-> IF x \in Wilds THEN w.color ELSE @[x]],
            !.parent = [x \in ListPointers |-> IF x \in Wilds THEN w.parent ELSE @[x]],
            !.left = [x \in ListPointers |-> IF x \in Wilds THEN w.left ELSE @[x]],
            !.right = [x \in ListPointers |-> IF x \in Wilds THEN w.right ELSE @[x]],
            !.id = [x \in ListPointers |-> IF x \in Wilds THEN 0 ELSE @[x]],
            !.process = [x \in ListPointers |-> IF x \in Wilds THEN NULL ELSE @[x]]]

ZeroPage == [color |-> RBTREE_COLOR_BLACK, parent |-> NULL, left |-> NULL, right |-> NULL]

\* the search of __process_list_insert (process.c:99-113); a pointer into
\* memory that is not mapped, or a search that does not end, stops the kernel
RECURSIVE ListSearch(_, _, _, _, _, _)
ListSearch(l, node, par, id, readable, steps) ==
  IF node = NULL
    THEN [parent |-> par, fault |-> FALSE]
    ELSE IF (node \in Wilds /\ ~readable) \/ steps = 0 \/ l.id[node] = id
      THEN [parent |-> par, fault |-> TRUE]
      ELSE ListSearch(l, IF l.id[node] < id THEN l.right[node] ELSE l.left[node],
                      node, id, readable, steps - 1)

\* whether rbtree_balance_insert reads or writes through a pointer of Wilds
RECURSIVE TouchesWild(_, _, _)
TouchesWild(l, node, steps) ==
  LET p == l.parent[node]
      g == l.parent[p]
      uncle == rbtree_node_uncle(l, node)
  IN IF p = NULL \/ steps = 0 THEN FALSE
     ELSE IF p \in Wilds THEN TRUE
     ELSE IF l.color[p] = RBTREE_COLOR_BLACK \/ g = NULL THEN FALSE
     ELSE IF g \in Wilds \/ uncle \in Wilds THEN TRUE
     ELSE IF uncle # NULL /\ l.color[uncle] = RBTREE_COLOR_RED
       THEN TouchesWild(l, g, steps - 1)
       ELSE ({l.parent[g]} \cup {l.left[x] : x \in {node, p, g}}
               \cup {l.right[x] : x \in {node, p, g}}) \cap Wilds # {}

\* __process_list_insert (process.c:90); no_memory: memory_alloc returns NULL
process_list_insert(l, process, readable, no_memory) ==
  LET id == ProcessId(l, process)
      found == ListSearch(l, l.root, NULL, id, readable, MaxCreates + 2)
      par == found.parent
      new_node == l.nodes + 1
      l1 == [l EXCEPT !.nodes = new_node, !.top = new_node,
                      !.color[new_node] = RBTREE_COLOR_BLACK,
                      !.left[new_node] = NULL, !.right[new_node] = NULL,
                      !.id[new_node] = id, !.process[new_node] = process,
                      !.parent[new_node] = par]
      l2 == IF par = NULL
              THEN [l1 EXCEPT !.root = new_node]
              ELSE IF l1.id[par] < id
                THEN [l1 EXCEPT !.right[par] = new_node]
                ELSE [l1 EXCEPT !.left[par] = new_node]
  IN IF l.size = 65535 \/ found.fault \/ no_memory
       THEN Fault(l)
       ELSE IF par = NULL
         THEN [l2 EXCEPT !.size = @ + 1]
         ELSE IF ~readable /\ TouchesWild(l2, new_node, MaxCreates + 2)
           THEN Fault(l)
           ELSE Then(rbtree_balance_insert(l2, new_node),
                     LAMBDA l3 : [l3 EXCEPT !.size = @ + 1])

\* process_create (process.c:146); name_length is the length of the name,
\* fails the step that runs out of memory: memory_alloc of the process_t,
\* paging_create_pageset, memory_alloc_aligned of the kernel stack,
\* process_alloc of the user stack, or the memory_alloc of the list node
process_create(l, name_length, fails, readable) ==
  IF name_length > 255 \/ fails = "process"
    THEN [l |-> l, ret |-> NULL]
    ELSE Then(AllocProcess(l),
              LAMBDA l1 :
                IF fails \in {"pageset", "kernel_stack", "user_stack"}
                  THEN [l |-> l1, ret |-> NULL]
                  ELSE Then(SetProcessId([l1 EXCEPT !.next_id = (@ + 1) % 65536],
                                         l1.count, l.next_id),
                            LAMBDA l2 :
                              [l |-> process_list_insert(l2, l1.count, readable,
                                                         fails = "node"),
                               ret |-> l1.count]))

\* the steps of process_create that can run out of memory, and "none"
FailInputs == {"none", "process", "pageset", "kernel_stack", "user_stack", "node"}

\* the lengths of the names given: a short name and one that is too long
NameLengths == {4, 256}

\* what the memory at the addresses of Wilds holds when it can be read: zeroes,
\* or a right pointer to a node of the list
WildInputs == {[ZeroPage EXCEPT !.right = n] : n \in {NULL} \cup ListNodes}

NoCreate ==
  [op |-> "none", name_length |-> 0, fails |-> "none", ret |-> NULL, id |-> 0,
   state |-> "none", last |-> 0]

\* process_create, called with nothing allocated from the kernel heap since
\* the call before it
ProcessCreate(name_length, fails, w) ==
  /\ ~cfault
  /\ processes.count < MaxCreates
  /\ (~user_readable => w = ZeroPage)
  /\ \E r \in {process_create(LoadWild(PL, w), name_length, fails, user_readable)} :
       /\ cev' = [op |-> "create", name_length |-> name_length, fails |-> fails,
                  ret |-> IF r.l.fault THEN NULL ELSE r.ret,
                  id |-> IF r.l.fault \/ r.ret = NULL THEN 0 ELSE ProcessId(r.l, r.ret),
                  state |-> IF r.l.fault \/ r.ret = NULL THEN "none" ELSE r.l.state[r.ret],
                  last |-> IF cev.ret # NULL THEN cev.id ELSE cev.last]
       /\ IF r.l.fault
            THEN /\ cfault' = TRUE
                 /\ UNCHANGED <<process_list, processes>>
            ELSE /\ cfault' = FALSE
                 /\ \E l \in {LoadWild(r.l, ZeroPage)} :
                      /\ process_list' =
                           [root |-> l.root, size |-> l.size, next_id |-> l.next_id,
                            nodes |-> l.nodes, color |-> l.color, parent |-> l.parent,
                            left |-> l.left, right |-> l.right, id |-> l.id,
                            process |-> l.process]
                      /\ processes' =
                           [top |-> l.top, overlay |-> l.overlay, state |-> l.state,
                            own_id |-> l.own_id, count |-> l.count]
  /\ UNCHANGED user_readable
  /\ UNCHANGED <<svars, mvars, pvars, avars, lvars, hvars, gvars, wvars>>

\* process_initialize (process.c:55); the kernel heap has handed out other
\* blocks last
CreateIdle ==
  /\ process_list =
       [root |-> NULL, size |-> 0, next_id |-> 1, nodes |-> 0,
        color |-> [x \in ListPointers |-> RBTREE_COLOR_BLACK],
        parent |-> [x \in ListPointers |-> NULL],
        left |-> [x \in ListPointers |-> NULL],
        right |-> [x \in ListPointers |-> NULL],
        id |-> [x \in ListPointers |-> 0],
        process |-> [x \in ListPointers |-> NULL]]
  /\ processes =
       [top |-> NULL, overlay |-> [q \in 1..MaxCreates |-> NULL],
        state |-> [q \in 1..MaxCreates |-> "none"],
        own_id |-> [q \in 1..MaxCreates |-> 0], count |-> 0]
  /\ cev = NoCreate
  /\ cfault = FALSE

CreateNext ==
  \E name_length \in NameLengths, fails \in FailInputs, w \in WildInputs :
    ProcessCreate(name_length, fails, w)

(***************************************************************************)
(* Part VII: the memory of a process (process.c)                           *)
(***************************************************************************)
\* process_adjust_heap calls made, at most
MaxAdjusts == 3

\* PROCESS_HEAP_BASE: the header that defines it is not among the sources;
\* the heap is taken to start on the last page of a page table
PROCESS_HEAP_BASE == Linear(1, 0, 0, PAGING_PT_SIZE - 1, 0)

\* PROCESS_HEAP_BASE + pages * 4096
HeapEnd(heap_pages) == LinearPlusPages(PROCESS_HEAP_BASE, heap_pages)

\* process_alloc (process.c:201) from the loop on: pages at linear, on the
\* allocator t and the page set ps; ok is FALSE for the NULL returned
RECURSIVE ProcessAllocLoop(_, _, _, _, _, _)
ProcessAllocLoop(t, ps, linear, remaining, flags, frames) ==
  IF remaining > 0
    THEN Then(memory_free_region_acquire(t, remaining),
              LAMBDA r :
                IF r.t.fault \/ ~(r.granted > 0)
                  THEN [t |-> r.t, ps |-> ps, ok |-> FALSE, frames |-> frames]
                  ELSE Then(paging_map(ps, linear,
                                       Physical(r.base \div PAGE_SIZE, r.base % PAGE_SIZE),
                                       r.granted, flags \cup {PAGING_USER}),
                            LAMBDA m :
                              IF m.ps.fault
                                THEN [t |-> r.t, ps |-> m.ps, ok |-> FALSE,
                                      frames |-> frames]
                                ELSE ProcessAllocLoop(
                                       r.t, m.ps, LinearPlusPages(linear, r.granted),
                                       remaining - r.granted, flags,
                                       frames \cup Run(r.base, r.granted))))
    ELSE [t |-> t, ps |-> ps, ok |-> TRUE, frames |-> frames]

\* the inner loop of process_free (process.c:343-364): the pages from linear
\* on that are present and continue the physical region
RECURSIVE ContiguousRun(_, _, _, _, _)
ContiguousRun(ps, linear, physical, unmap, steps) ==
  LET this == paging_resolve_linear_address(ps, linear)
  IN IF steps > 0 /\ this.ok /\ this.physical = PhysicalAdd(physical, unmap * PAGE_SIZE)
       THEN ContiguousRun(ps, LinearPlusPages(linear, 1), physical, unmap + 1,
                          steps - 1)
       ELSE unmap

\* process_free (process.c:312) from the loop on; node is the block that
\* memory_alloc gives the next release.  hang: pages fell below zero, so the
\* loop goes on through the address space
RECURSIVE ProcessFreeLoop(_, _, _, _, _, _)
ProcessFreeLoop(t, ps, linear, remaining, node, frames) ==
  IF remaining > 0
    THEN LET here == paging_resolve_linear_address(ps, linear)
         IN IF here.fault
              THEN [t |-> Fault(t), node |-> node, frames |-> frames, hang |-> FALSE]
              ELSE IF here.ok
                THEN LET unmap == ContiguousRun(ps, LinearPlusPages(linear, 1),
                                                here.physical, 1, MaxFrames)
                         base == here.physical.frame * PAGE_SIZE + here.physical.offset
                     IN Then(memory_free_region_release(t, node, base, unmap),
                             LAMBDA t1 :
                               IF t1.fault \/ unmap > remaining
                                 THEN [t |-> t1, node |-> node + 1,
                                       frames |-> frames \cup Run(base, unmap),
                                       hang |-> ~t1.fault]
                                 ELSE ProcessFreeLoop(
                                        t1, ps, LinearPlusPages(linear, unmap),
                                        remaining - unmap, node + 1,
                                        frames \cup Run(base, unmap)))
                ELSE ProcessFreeLoop(t, ps, LinearPlusPages(linear, 1),
                                     remaining - 1, node, frames)
    ELSE [t |-> t, node |-> node, frames |-> frames, hang |-> FALSE]

\* length / 4096, plus one if length % 4096 != 0 (process.c:386-390)
HeapPages(length) == length \div PAGE_SIZE + (IF length % PAGE_SIZE # 0 THEN 1 ELSE 0)

\* 2^64 / 4096, the pages of the whole 64-bit address space: 2^52 in the
\* source; here a number above every count of frames and pages of the model
\* stands for it
AllPages == 2^30

\* process->heap_length / 4096, plus one if there is a remainder, for the
\* uint64_t process->heap_length after += amount (process.c:384-390): a sum
\* below zero has wrapped to 2^64 + sum
WrappedHeapPages(sum) ==
  IF sum >= 0 THEN HeapPages(sum) ELSE AllPages - (0 - sum) \div PAGE_SIZE

\* (new_heap_pages - old_heap_pages) * 4096 in uint64_t (process.c:397), as
\* the pages process_alloc makes of it: the product of 2^52 pages wraps to a
\* length of 0
AllocLength(n) == IF n = AllPages THEN 0 ELSE n

UndoAdjust_kept(length, amount) == length

\* process->heap_length -= amount (process.c:402)
UndoAdjust(length, amount) == length - amount

\* process_adjust_heap (process.c:380): length is process->heap_length; ret is
\* the number of heap pages in the pointer returned, PROCESS_HEAP_BASE +
\* new_heap_pages * 4096
process_adjust_heap(length, t, ps, amount, node) ==
  LET old_heap_pages == HeapPages(length)
      new_heap_pages == WrappedHeapPages(length + amount)
      same == [length |-> length + amount, t |-> t, ps |-> ps, node |-> node,
               ret |-> new_heap_pages, alloc |-> "none", taken |-> {},
               given |-> {}, hang |-> FALSE]
  IN IF new_heap_pages > old_heap_pages
       THEN Then(IF AllocLength(new_heap_pages - old_heap_pages) = 0
                   THEN [t |-> t, ps |-> ps, ok |-> FALSE, frames |-> {}]
                   ELSE ProcessAllocLoop(t, ps, HeapEnd(old_heap_pages),
                                         new_heap_pages - old_heap_pages, {}, {}),
                 LAMBDA a :
                   IF a.ok
                     THEN [same EXCEPT !.t = a.t, !.ps = a.ps, !.alloc = "done",
                                       !.taken = a.frames]
                     ELSE [same EXCEPT !.t = a.t, !.ps = a.ps, !.alloc = "failed",
                                       !.taken = a.frames,
                                       !.length = UndoAdjust(length + amount, amount),
                                       !.ret = old_heap_pages])
       ELSE IF new_heap_pages < old_heap_pages
         THEN Then(ProcessFreeLoop(t, ps, HeapEnd(new_heap_pages),
                                   old_heap_pages - new_heap_pages, node, {}),
                   LAMBDA f :
                     [same EXCEPT !.t = f.t, !.node = f.node, !.given = f.frames,
                                  !.hang = f.hang])
         ELSE same

\* the amounts the heap is adjusted by
AdjustInputs == {1, PAGE_SIZE, PAGE_SIZE + 1, 2 * PAGE_SIZE}

NoAdjust ==
  [op |-> "none", amount |-> 0, ret |-> 0, alloc |-> "none", old_length |-> 0,
   old_pages |-> 0, halted |-> FALSE]

\* the adjust_heap system call of the process whose page set PS is
AdjustHeap(amount) ==
  /\ pml4 # NULL /\ ~pfault /\ ~mfault /\ ~hev.halted
  /\ adjust_calls < MaxAdjusts
  /\ node_count + HeapPages(heap_length) <= MaxNodes
  /\ adjust_calls' = adjust_calls + 1
  /\ \E r \in {process_adjust_heap(heap_length, M, PS, amount, node_count + 1)} :
       LET halted == r.t.fault \/ r.ps.fault \/ r.hang
       IN /\ hev' = [op |-> "adjust", amount |-> amount,
                     ret |-> IF halted THEN NONE ELSE r.ret,
                     alloc |-> r.alloc, old_length |-> heap_length,
                     old_pages |-> HeapPages(heap_length), halted |-> halted]
          /\ heap_length' = IF halted THEN heap_length ELSE r.length
          /\ node_count' = IF halted THEN node_count ELSE r.node - 1
          /\ MStore(IF halted THEN Fault(r.t) ELSE r.t, "adjust", amount, NULL,
                    Cardinality(r.taken), NONE, <<>>,
                    (owned \cup r.taken) \ r.given)
          /\ PStore(IF halted THEN [r.ps EXCEPT !.fault = TRUE] ELSE r.ps,
                    [NoCall EXCEPT !.op = "adjust"])
  /\ UNCHANGED <<map_calls, unmap_calls>>
  /\ UNCHANGED <<svars, avars, lvars, cvars, gvars, wvars>>

\* memory_free_region_release by the boot code, before the process exists
BootRelease(f, n) ==
  /\ pml4 = NULL
  /\ Release(f, n)
  /\ UNCHANGED hvars

\* paging_create_pageset for the process
ProcessPageset ==
  /\ CreatePageset
  /\ UNCHANGED hvars

AdjustIdle == heap_length = 0 /\ adjust_calls = 0 /\ hev = NoAdjust

AdjustNext ==
  \/ \E f \in Frames, n \in 1..MaxFrames : BootRelease(f, n)
  \/ ProcessPageset
  \/ \E amount \in AdjustInputs : AdjustHeap(amount)
  \/ \E amount \in AdjustInputs : AdjustHeap(0 - amount)

(***************************************************************************)
(* Part VIII: the arguments of a process (process.c) and the kernel's page *)
(* set (paging.c)                                                          *)
(***************************************************************************)
\* process_set_args calls made, at most
MaxArgCalls == 1

\* regions released by the boot code before process_set_args, at most
MaxArgRegions == 3

\* the length of the long argument: with it the arguments take two pages
MaxArg == 4080

\* 0x7feeffffffff (process.c:446)
ArgsTop == Linear(255, 443, 511, 511, PAGE_SIZE - 1)

\* kernel_base, 0xffff888800000000 (process.c:447, paging.c:78)
kernel_base == Linear(273, 32, 0, 0, 0)

\* linear + bytes
LinearAddOffset(linear, bytes) ==
  [LinearPlusPages(linear, (linear.offset + bytes) \div PAGE_SIZE)
     EXCEPT !.offset = (linear.offset + bytes) % PAGE_SIZE]

\* linear - bytes
LinearSubOffset(linear, bytes) ==
  LET back == IF bytes > linear.offset
                THEN (bytes - linear.offset + PAGE_SIZE - 1) \div PAGE_SIZE
                ELSE 0
  IN [LinearPlusPages(linear, 0 - back)
        EXCEPT !.offset = linear.offset + back * PAGE_SIZE - bytes]

\* linear & (-1 << 12)
LinearPageBase(linear) == [linear EXCEPT !.offset = 0]

\* the number of the page of a linear address inside its PML4 entry
PageInEntry(linear) ==
  (linear.pdpt_index * PAGING_PD_SIZE + linear.pd_index) * PAGING_PT_SIZE
    + linear.pt_index

\* (uintptr_t) a - (uintptr_t) b, kept as the differences of the PML4 index,
\* of the page inside the PML4 entry and of the offset
LinearDelta(a, b) ==
  [pml4 |-> a.pml4_index - b.pml4_index,
   page |-> PageInEntry(a) - PageInEntry(b),
   offset |-> a.offset - b.offset]

LinearSubDelta_kept(linear, delta) == linear

\* (uintptr_t) linear - delta
LinearSubDelta(linear, delta) ==
  LET offset == linear.offset - delta.offset
      page == PageInEntry(linear) - delta.page
               + (IF offset < 0 THEN 0 - 1 ELSE IF offset >= PAGE_SIZE THEN 1 ELSE 0)
      index == linear.pml4_index - delta.pml4
                + (IF page < 0 THEN 0 - 1
                   ELSE IF page >= PAGING_PDPT_4KPAGES THEN 1 ELSE 0)
      page_in == (page + PAGING_PDPT_4KPAGES) % PAGING_PDPT_4KPAGES
  IN [pml4_index |-> (index + PAGING_PML4_SIZE) % PAGING_PML4_SIZE,
      pdpt_index |-> page_in \div PAGING_PD_4KPAGES,
      pd_index |-> (page_in \div PAGING_PT_4KPAGES) % PAGING_PD_SIZE,
      pt_index |-> page_in % PAGING_PT_SIZE,
      offset |-> (offset + PAGE_SIZE) % PAGE_SIZE]

\* a paging_phy_lin_map_t without entries
EmptyTableMap ==
  [root |-> NULL, entries |-> 0,
   color |-> [n \in TablePages |-> RBTREE_COLOR_BLACK],
   parent |-> [n \in TablePages |-> NULL],
   left |-> [n \in TablePages |-> NULL],
   right |-> [n \in TablePages |-> NULL],
   page_frame |-> [n \in TablePages |-> 0],
   page_number |-> [n \in TablePages |-> 0],
   fault |-> FALSE]

\* what a byte of memory holds: a byte that was stored, byte index of a
\* pointer that was stored, or nothing that the model stored
ByteCell(b) == [kind |-> "byte", value |-> b]

PointerCell(pointer, index) == [kind |-> "pointer", value |-> pointer, index |-> index]

NoCell == [kind |-> "none"]

\* (uint64_t) NULL in a register
NullPointer == [null |-> TRUE]

\* The two page sets over the one kernel heap: the page set of the process,
\* paging_kernel_pageset, and the table pages of both
World ==
  [pml4 |-> pml4, tables |-> (KernelPml4 :> kernel_pml4) @@ tables,
   table_map |-> table_map, kernel_table_map |-> kernel_table_map,
   table_count |-> table_count, fault |-> pfault]

\* &process->pageset
UserPageset(w) ==
  [pml4 |-> w.pml4, tables |-> w.tables, table_map |-> w.table_map,
   table_count |-> w.table_count, fault |-> w.fault]

\* &paging_kernel_pageset
KernelPageset(w) ==
  [pml4 |-> KernelPml4, tables |-> w.tables, table_map |-> w.kernel_table_map,
   table_count |-> w.table_count, fault |-> w.fault]

PutUser(w, ps) ==
  [w EXCEPT !.pml4 = ps.pml4, !.tables = ps.tables, !.table_map = ps.table_map,
            !.table_count = ps.table_count, !.fault = ps.fault]

PutKernel(w, ps) ==
  [w EXCEPT !.tables = ps.tables, !.kernel_table_map = ps.table_map,
            !.table_count = ps.table_count, !.fault = ps.fault]

\* the table page behind a page frame, for the processor's walk
TableAtFrame(w, frame) ==
  IF \E p \in 1..w.table_count : heap_physical[p] = frame
    THEN CHOOSE p \in 1..w.table_count : heap_physical[p] = frame
    ELSE NULL

\* the table pages of the boot code: the PDPT and the PD of KERNEL_OFFSET
\* (config.h:17), which is PML4 entry 511 and PDPT entry 510
BootPdpt == 1

BootPd == 2

\* an entry that points to the table at a table page
TableEntry(page) ==
  [present |-> 1, writable |-> 1, user |-> 0, page_physical |-> heap_physical[page]]

\* The tables paging_initialize finds behind CR3: the kernel is mapped at
\* KERNEL_OFFSET, where the code runs and where paging.c:41 finds the PML4,
\* and entry 0 holds the identity map of the boot code.  The entries of the
\* PD for the kernel's image are left out: no call of the model goes there.
BootWorld ==
  [pml4 |-> NULL,
   tables |-> [p \in TablePages \cup {KernelPml4} |->
                 IF p = KernelPml4
                   THEN (0 :> TableEntry(BootPdpt))
                          @@ (PAGING_PML4_SIZE - 1 :> TableEntry(BootPdpt))
                   ELSE IF p = BootPdpt
                     THEN (PAGING_PDPT_SIZE - 2 :> TableEntry(BootPd))
                     ELSE [i \in {} |-> ZeroEntry]],
   table_map |-> EmptyTableMap, kernel_table_map |-> EmptyTableMap,
   table_count |-> BootPd, fault |-> FALSE]

\* the loops of paging_initialize, __paging_initialize_scan_pdpt and
\* __paging_initialize_scan_pd (paging.c:60-73, 82-112) over the entries todo
\* of a table: the table behind each present entry goes into the table map
\* and is scanned, down to the page tables
RECURSIVE InitializeScan(_, _, _, _, _)
InitializeScan(w, map, table, todo, depth) ==
  IF todo = {}
    THEN map
    ELSE LET i == CHOOSE x \in todo : \A y \in todo : x <= y
             frame == EntryAt(w, table, i).page_physical
             below == TableAtFrame(w, frame)
         IN Then(paging_phy_lin_map_set(map, frame, below),
                 LAMBDA m1 :
                   Then(IF depth > 1
                          THEN InitializeScan(w, m1, below, PresentAt(w, below),
                                              depth - 1)
                          ELSE m1,
                        LAMBDA m2 :
                          InitializeScan(w, m2, table, todo \ {i}, depth)))

\* paging_initialize without its last two calls
paging_initialize_no_hack(w) ==
  Then([w EXCEPT !.tables[KernelPml4] = (0 :> ZeroEntry) @@ @],
       LAMBDA w1 :
         [w1 EXCEPT !.kernel_table_map =
            InitializeScan(w1, EmptyTableMap, KernelPml4,
                           PresentAt(w1, KernelPml4), 3)])

\* paging_initialize (paging.c:23): the identity map is taken out of the
\* PML4, the tables of the boot code go into the table map, and the page at
\* kernel_base is mapped and unmapped, which leaves the PDPT, PD and PT of
\* the address in the kernel's page set
paging_initialize(w) ==
  Then([w EXCEPT !.tables[KernelPml4] = (0 :> ZeroEntry) @@ @],
       LAMBDA w1 :
         Then([w1 EXCEPT !.kernel_table_map =
                 InitializeScan(w1, EmptyTableMap, KernelPml4,
                                PresentAt(w1, KernelPml4), 3)],
              LAMBDA w2 :
                Then(paging_map(KernelPageset(w2), kernel_base, Physical(0, 0),
                                1, {}),
                     LAMBDA m :
                       Then(paging_unmap(m.ps, kernel_base, 1),
                            LAMBDA u : PutKernel(w2, u.ps)))))

\* paging_create_pageset with its copy of the higher half of the kernel's
\* PML4 (paging.c:395-397)
CreateWithKernelHalf(w) ==
  Then(paging_create_pageset(UserPageset(w)),
       LAMBDA r :
         IF ~r.ok
           THEN [w |-> w, ok |-> FALSE]
           ELSE [w |-> [PutUser(w, r.ps) EXCEPT
                          !.tables[r.ps.pml4] =
                             [i \in {j \in DOMAIN w.tables[KernelPml4] :
                                       j >= PAGING_PML4_HALF} |->
                                w.tables[KernelPml4][i]]],
                 ok |-> TRUE])

\* the processor's translation of a linear address with the PML4 at page
\* top as CR3: the frame, and whether user code may read it
Translate(w, top, linear) ==
  LET none == [ok |-> FALSE, frame |-> 0, user |-> FALSE, writable |-> FALSE]
      pml4_entry == EntryAt(w, top, linear.pml4_index)
      pdpt == TableAtFrame(w, pml4_entry.page_physical)
      pdpt_entry == EntryAt(w, pdpt, linear.pdpt_index)
      pd == TableAtFrame(w, pdpt_entry.page_physical)
      pd_entry == EntryAt(w, pd, linear.pd_index)
      pt == TableAtFrame(w, pd_entry.page_physical)
      pt_entry == EntryAt(w, pt, linear.pt_index)
  IN IF pml4_entry.present = 0 \/ pdpt = NULL THEN none
     ELSE IF pdpt_entry.present = 0 \/ pd = NULL THEN none
     ELSE IF pd_entry.present = 0 \/ pt = NULL THEN none
     ELSE IF pt_entry.present = 0 THEN none
     ELSE [ok |-> TRUE, frame |-> pt_entry.page_physical,
           user |-> /\ pml4_entry.user = 1 /\ pdpt_entry.user = 1
                    /\ pd_entry.user = 1 /\ pt_entry.user = 1,
           writable |-> /\ pml4_entry.writable = 1 /\ pdpt_entry.writable = 1
                        /\ pd_entry.writable = 1 /\ pt_entry.writable = 1]

\* process_alloc_with_kernel (process.c:255) from the loop on; ret is the
\* value returned, w.fault a DEBUG_ASSERT that failed
RECURSIVE AllocWithKernelLoop(_, _, _, _, _, _, _)
AllocWithKernelLoop(t, w, current_user, current_kernel, remaining, flags, frames) ==
  IF remaining > 0
    THEN Then(memory_free_region_acquire(t, remaining),
              LAMBDA r :
                IF r.t.fault \/ ~(r.granted > 0)
                  THEN [t |-> r.t, w |-> w, ret |-> FALSE, frames |-> frames]
                  ELSE LET physical == Physical(r.base \div PAGE_SIZE,
                                                r.base % PAGE_SIZE)
                       IN Then(paging_map(UserPageset(w), current_user, physical,
                                          r.granted, flags \cup {PAGING_USER}),
                               LAMBDA mu :
                                 Then(paging_map(KernelPageset(PutUser(w, mu.ps)),
                                                 current_kernel, physical,
                                                 r.granted, flags \ {PAGING_USER}),
                                      LAMBDA mk :
                                        IF \/ mk.ps.fault
                                           \/ mu.mapped # r.granted
                                           \/ mk.mapped # r.granted
                                          THEN [t |-> r.t,
                                                w |-> [PutKernel(PutUser(w, mu.ps), mk.ps)
                                                         EXCEPT !.fault = TRUE],
                                                ret |-> FALSE,
                                                frames |-> frames \cup Run(r.base, r.granted)]
                                          ELSE AllocWithKernelLoop(
                                                 r.t, PutKernel(PutUser(w, mu.ps), mk.ps),
                                                 LinearPlusPages(current_user, r.granted),
                                                 LinearPlusPages(current_kernel, r.granted),
                                                 remaining - r.granted, flags,
                                                 frames \cup Run(r.base, r.granted)))))
    ELSE [t |-> t, w |-> w, ret |-> TRUE, frames |-> frames]

\* the pages of length bytes (process.c:271, 469-471)
LengthPages(length) ==
  length \div PAGE_SIZE + (IF length % PAGE_SIZE = 0 THEN 0 ELSE 1)

process_alloc_with_kernel(t, w, user_address, kernel_address, length, flags) ==
  IF user_address.offset # 0 \/ kernel_address.offset # 0
    THEN [t |-> t, w |-> [w EXCEPT !.fault = TRUE], ret |-> FALSE, frames |-> {}]
    ELSE IF LengthPages(length) = 0
      THEN [t |-> t, w |-> w, ret |-> FALSE, frames |-> {}]
      ELSE AllocWithKernelLoop(t, w, user_address, kernel_address,
                               LengthPages(length), flags, {})

\* string_length (string.h:43) of a string kept as its bytes before the NUL
string_length(s) == Len(s)

\* sizeof(char *)
PointerSize == 8

\* total_bytes after the loop of process.c:437-440
RECURSIVE TotalBytes(_, _, _)
TotalBytes(argc, argv, i) ==
  IF i < argc
    THEN PointerSize + string_length(argv[i + 1]) + 1 + TotalBytes(argc, argv, i + 1)
    ELSE 0

\* the loop of process.c:458-467: data is the offset of the write pointer
\* from kernel_base; pointers are the values stored in pointer_array and
\* bytes what is stored from pointer_array + argc on
RECURSIVE CopyArgs(_, _, _, _, _, _)
CopyArgs(argc, argv, base_delta, i, data, out) ==
  IF i < argc
    THEN CopyArgs(argc, argv, base_delta, i + 1,
                  data + string_length(argv[i + 1]) + 1,
                  [pointers |-> Append(out.pointers,
                                       LinearSubDelta(LinearAddOffset(kernel_base, data),
                                                      base_delta)),
                   bytes |-> out.bytes \o argv[i + 1] \o <<0>>])
    ELSE out

\* the byte at offset k of the region: byte k % 8 of a pointer, or a byte of
\* the strings
RegionCell(argc, copied, k) ==
  IF k < PointerSize * argc
    THEN PointerCell(copied.pointers[k \div PointerSize + 1], k % PointerSize)
    ELSE ByteCell(copied.bytes[k - PointerSize * argc + 1])

\* the stores of the loop as the processor does them, through the page
\* tables under the PML4 at page top: the frames after them, or a page fault
StoreArgs(w, top, mem, argc, copied, total_bytes) ==
  LET touched == 0..((total_bytes - 1) \div PAGE_SIZE)
      last(pg) == IF (pg + 1) * PAGE_SIZE <= total_bytes
                    THEN PAGE_SIZE - 1
                    ELSE total_bytes - pg * PAGE_SIZE - 1
  IN Then([pg \in touched |->
             Translate(w, top, LinearPlusPages(kernel_base, pg))],
          LAMBDA at :
            IF \E pg \in touched : ~at[pg].ok \/ ~at[pg].writable
                                     \/ at[pg].frame \notin DOMAIN mem
              THEN [memory |-> mem, fault |-> TRUE]
              ELSE [memory |->
                      [f \in DOMAIN mem |->
                         IF \E pg \in touched : at[pg].frame = f
                           THEN Then(CHOOSE pg \in touched : at[pg].frame = f,
                                     LAMBDA pg :
                                       [o \in 0..last(pg) |->
                                          RegionCell(argc, copied, pg * PAGE_SIZE + o)]
                                         @@ mem[f])
                           ELSE mem[f]],
                    fault |-> FALSE])

\* process_set_args (process.c:416), called with the PML4 at page top as CR3
process_set_args(t, w, mem, regs, argc, argv, top) ==
  LET same == [t |-> t, w |-> w, memory |-> mem, registers |-> regs,
               ret |-> FALSE, frames |-> {}]
      total_bytes == TotalBytes(argc, argv, 0)
      user_base == LinearPageBase(LinearSubOffset(ArgsTop, total_bytes))
      base_delta == LinearDelta(kernel_base, user_base)
  IN IF argc < 0 THEN same
     ELSE IF argc = 0
       THEN [same EXCEPT !.registers = [rdi |-> argc, rsi |-> NullPointer], !.ret = TRUE]
       ELSE Then(process_alloc_with_kernel(t, w, user_base, kernel_base,
                                           total_bytes, {}),
                 LAMBDA a :
                   IF ~a.ret
                     THEN [same EXCEPT !.t = a.t, !.w = a.w, !.frames = a.frames]
                     ELSE Then(Then(CopyArgs(argc, argv, base_delta, 0,
                                             PointerSize * argc,
                                             [pointers |-> <<>>, bytes |-> <<>>]),
                                    LAMBDA copied :
                                      StoreArgs(a.w, top, mem, argc, copied,
                                                total_bytes)),
                               LAMBDA s :
                                 IF s.fault
                                   THEN [same EXCEPT !.t = a.t,
                                                     !.w = [a.w EXCEPT !.fault = TRUE],
                                                     !.frames = a.frames]
                                   ELSE [t |-> a.t,
                                         w |-> PutKernel(
                                                 a.w,
                                                 paging_unmap(KernelPageset(a.w),
                                                              kernel_base,
                                                              LengthPages(total_bytes)).ps),
                                         memory |-> s.memory,
                                         registers |-> [rdi |-> argc, rsi |-> user_base],
                                         ret |-> TRUE,
                                         frames |-> a.frames]))

\* the arguments the calls are made with: none, one, three with an empty
\* string among them, and two that take more than a page; and a negative argc
LongArg == [i \in 1..MaxArg |-> 120]

ArgInputs ==
  {[argc |-> 0 - 1, argv |-> <<>>],
   [argc |-> 0, argv |-> <<>>],
   [argc |-> 1, argv |-> <<<<97>>>>],
   [argc |-> 3, argv |-> <<<<97, 114>>, <<>>, <<98>>>>],
   [argc |-> 2, argv |-> <<<<97>>, LongArg>>]}

NoArgs ==
  [op |-> "none", argc |-> 0, argv |-> <<>>, ret |-> FALSE, halted |-> FALSE,
   calls |-> 0, kernel_context |-> FALSE]

\* the state of the page-set variables that World w stands for
WorldStore(w, event) ==
  /\ PStore([pml4 |-> w.pml4,
             tables |-> [p \in TablePages |-> w.tables[p]],
             table_map |-> w.table_map, table_count |-> w.table_count,
             fault |-> w.fault], event)
  /\ IF w.fault
       THEN UNCHANGED <<kernel_pml4, kernel_table_map>>
       ELSE /\ kernel_pml4' = w.tables[KernelPml4]
            /\ kernel_table_map' = w.kernel_table_map

\* paging_create_pageset for the process, after paging_initialize
ArgsCreatePageset ==
  /\ pml4 = NULL /\ ~pfault
  /\ \E r \in {CreateWithKernelHalf(World)} :
       /\ r.ok
       /\ WorldStore(r.w, [NoCall EXCEPT !.op = "create"])
  /\ UNCHANGED <<map_calls, unmap_calls>>
  /\ UNCHANGED <<memory, registers, gev>>
  /\ UNCHANGED <<svars, mvars, avars, lvars, cvars, hvars, wvars>>

\* process_set_args for the process, called by the kernel with its own page
\* set as the current one, or in a system call with a page set that
\* paging_create_pageset made
SetArgs(argc, argv, kernel_context) ==
  /\ pml4 # NULL /\ ~pfault /\ ~mfault /\ ~gev.halted
  /\ gev.calls < MaxArgCalls
  /\ \E r \in {process_set_args(M, World, memory, registers, argc, argv,
                                IF kernel_context THEN KernelPml4 ELSE pml4)} :
       LET halted == r.t.fault \/ r.w.fault
       IN /\ gev' = [op |-> "set_args", argc |-> argc, argv |-> argv,
                     ret |-> r.ret /\ ~halted, halted |-> halted,
                     calls |-> gev.calls + 1,
                     kernel_context |-> kernel_context]
          /\ memory' = IF halted THEN memory ELSE r.memory
          /\ registers' = IF halted THEN registers ELSE r.registers
          /\ MStore(IF halted THEN Fault(r.t) ELSE r.t, "set_args", argc, NULL,
                    Cardinality(r.frames), NONE, <<>>, owned \cup r.frames)
          /\ WorldStore(IF halted THEN [r.w EXCEPT !.fault = TRUE] ELSE r.w,
                        [NoCall EXCEPT !.op = "set_args"])
  /\ UNCHANGED <<node_count, map_calls, unmap_calls>>
  /\ UNCHANGED <<svars, avars, lvars, cvars, hvars, wvars>>

\* memory_free_region_release by the boot code, before the process exists
ArgsBootRelease(f, n) ==
  /\ pml4 = NULL
  /\ node_count < MaxArgRegions
  /\ Release(f, n)

ArgsIdle ==
  /\ kernel_pml4 = [i \in {} |-> ZeroEntry]
  /\ kernel_table_map = EmptyTableMap
  /\ memory = [f \in Frames |-> [o \in {} |-> NoCell]]
  /\ registers = [rdi |-> 0, rsi |-> NullPointer]
  /\ gev = NoArgs

\* the page-set variables after paging_initialize
ArgsInit ==
  /\ pml4 = NULL
  /\ map_calls = 0 /\ unmap_calls = 0 /\ pev = NoCall /\ pfault = FALSE
  /\ memory = [f \in Frames |-> [o \in {} |-> NoCell]]
  /\ registers = [rdi |-> 0, rsi |-> NullPointer]
  /\ gev = NoArgs
  /\ \E w \in {paging_initialize(BootWorld)} :
       /\ tables = [p \in TablePages |-> w.tables[p]]
       /\ table_map = w.table_map
       /\ table_count = w.table_count
       /\ kernel_pml4 = w.tables[KernelPml4]
       /\ kernel_table_map = w.kernel_table_map

ArgsNext ==
  \/ \E f \in Frames, n \in 1..MaxFrames : ArgsBootRelease(f, n)
  \/ ArgsCreatePageset
  \/ \E a \in ArgInputs, kernel_context \in BOOLEAN :
       SetArgs(a.argc, a.argv, kernel_context)

(***************************************************************************)
(* Part IX: process_alloc and process_free at an address of the caller     *)
(* (process.c)                                                             *)
(***************************************************************************)
\* process_alloc and process_free calls in a run
MaxProcCalls == 2

\* process_alloc (process.c:201) on the allocator t and the page set ps of
\* the process: the offset of the address goes into the length, the length
\* becomes pages, and no pages is NULL at once
process_alloc_pageset(t, ps, address, length, flags) ==
  LET pages_ == LengthPages(length + address.offset)
  IN IF pages_ = 0
       THEN [t |-> t, ps |-> ps, ok |-> FALSE, frames |-> {}]
       ELSE ProcessAllocLoop(t, ps, LinearPageBase(address), pages_, flags, {})

\* process_free (process.c:312), with the same normalisation
process_free_pageset(t, ps, address, length, node) ==
  ProcessFreeLoop(t, ps, LinearPageBase(address),
                  LengthPages(length + address.offset), node, {})

\* the addresses of the calls: the last two pages of a page table, whole or
\* from the middle of the page, and the last page of the lower half
ProcAddresses ==
  {Linear(0, 0, 0, PAGING_PT_SIZE - 2, 0),
   Linear(0, 0, 0, PAGING_PT_SIZE - 2, HalfPage),
   Linear(0, 0, 0, PAGING_PT_SIZE - 1, 0),
   Linear(PAGING_PML4_HALF - 1, PAGING_PDPT_SIZE - 1, PAGING_PD_SIZE - 1,
          PAGING_PT_SIZE - 1, 0)}

\* the lengths of the calls, in bytes
ProcLengths == {0, 1, PAGE_SIZE, 2 * PAGE_SIZE}

NoProcCall ==
  [op |-> "none", linear |-> Linear(0, 0, 0, 0, 0), pages |-> 0, ok |-> FALSE,
   frames |-> {}, wrapped |-> FALSE, halted |-> FALSE]

\* a process_alloc call for the process whose page set PS is
ProcAlloc(address, length) ==
  /\ pml4 # NULL /\ ~pfault /\ ~mfault /\ ~qev.halted
  /\ proc_calls < MaxProcCalls
  /\ proc_calls' = proc_calls + 1
  /\ \E r \in {process_alloc_pageset(M, PS, address, length, {})} :
       LET halted == r.t.fault \/ r.ps.fault
       IN /\ qev' = [op |-> "alloc", linear |-> LinearPageBase(address),
                     pages |-> LengthPages(length + address.offset),
                     ok |-> r.ok /\ ~halted, frames |-> r.frames,
                     wrapped |-> FALSE, halted |-> halted]
          /\ MStore(IF halted THEN Fault(r.t) ELSE r.t, "alloc", length, NULL,
                    Cardinality(r.frames), NONE, <<>>, owned \cup r.frames)
          /\ PStore(IF halted THEN [r.ps EXCEPT !.fault = TRUE] ELSE r.ps,
                    [NoCall EXCEPT !.op = "alloc"])
  /\ UNCHANGED <<map_calls, unmap_calls, node_count>>
  /\ UNCHANGED <<svars, avars, lvars, cvars, hvars, gvars, kvars, yvars, ivars>>

\* a process_free call for the process; memory_alloc gives each release of
\* the call a new block for its node
ProcFree(address, length) ==
  /\ pml4 # NULL /\ ~pfault /\ ~mfault /\ ~qev.halted
  /\ proc_calls < MaxProcCalls
  /\ node_count + LengthPages(length + address.offset) <= MaxNodes
  /\ proc_calls' = proc_calls + 1
  /\ \E r \in {process_free_pageset(M, PS, address, length, node_count + 1)} :
       LET halted == r.t.fault \/ r.hang
       IN /\ qev' = [op |-> "free", linear |-> LinearPageBase(address),
                     pages |-> LengthPages(length + address.offset),
                     ok |-> ~halted, frames |-> r.frames,
                     wrapped |-> r.hang, halted |-> halted]
          /\ node_count' = IF halted THEN node_count ELSE r.node - 1
          /\ MStore(IF halted THEN Fault(r.t) ELSE r.t, "free", length, NULL,
                    0, NONE, <<>>, owned \ r.frames)
          /\ PStore(PS, [NoCall EXCEPT !.op = "free"])
  /\ UNCHANGED <<map_calls, unmap_calls>>
  /\ UNCHANGED <<svars, avars, lvars, cvars, hvars, gvars, kvars, yvars, ivars>>

\* memory_free_region_release by the boot code, before the process exists
ProcBootRelease(f, n) ==
  /\ pml4 = NULL
  /\ Release(f, n)

ProcMemIdle == proc_calls = 0 /\ qev = NoProcCall

ProcMemNext ==
  \/ \E f \in Frames, n \in 1..MaxFrames : ProcBootRelease(f, n)
  \/ ProcessPageset
  \/ \E address \in ProcAddresses, length \in ProcLengths :
       ProcAlloc(address, length)
  \/ \E address \in ProcAddresses, length \in ProcLengths :
       ProcFree(address, length)

(***************************************************************************)
(* Part X: the keyboard's event queue (keyboard.c)                         *)
(***************************************************************************)
\* keyboard_queue.length: 1024 in keyboard_initialize (keyboard.c:70), a few
\* entries here
KeyboardLength == 4

\* the key events the interrupt handler brings, each one its own
MaxKeys == 9

\* (size_t) 0 - 1: the largest size_t, which no index into the buffer equals
SIZE_MAX == 2147483647

\* keyboard_queue.start - 1 in size_t (keyboard.c:99)
StartMinusOne(queue) == IF queue.start = 0 THEN SIZE_MAX ELSE queue.start - 1

\* ++index >= keyboard_queue.length ? 0 : index (keyboard.c:105, 126)
KeyboardWrap(queue, index) == IF index + 1 >= queue.length THEN 0 ELSE index + 1

\* keyboard_enqueue (keyboard.c:97)
keyboard_enqueue(queue, event) ==
  IF queue.end # StartMinusOne(queue)
    THEN [queue |-> [queue EXCEPT !.buffer[queue.end] = event,
                                  !.end = KeyboardWrap(queue, queue.end)],
          ret |-> TRUE]
    ELSE [queue |-> queue, ret |-> FALSE]

\* keyboard_dequeue (keyboard.c:118); event is what *event holds after the
\* call, NULL for the caller's bytes left as they were
keyboard_dequeue(queue) ==
  IF queue.end # queue.start
    THEN [queue |-> [queue EXCEPT !.start = KeyboardWrap(queue, queue.start)],
          event |-> queue.buffer[queue.start], ret |-> TRUE]
    ELSE [queue |-> queue, event |-> NULL, ret |-> FALSE]

NoKey == [op |-> "none", event |-> NULL, ret |-> FALSE]

\* keyboard_initialize (keyboard.c:62)
KeyboardIdle ==
  /\ keyboard_queue = [buffer |-> [i \in 0..(KeyboardLength - 1) |-> NULL],
                       length |-> KeyboardLength, start |-> 0, end |-> 0]
  /\ accepted = <<>>
  /\ delivered = <<>>
  /\ next_key = 1
  /\ kev = NoKey

\* the interrupt handler's keyboard_enqueue of the next key event
KeyboardEnqueue ==
  /\ next_key <= MaxKeys
  /\ next_key' = next_key + 1
  /\ \E r \in {keyboard_enqueue(keyboard_queue, next_key)} :
       /\ keyboard_queue' = r.queue
       /\ accepted' = IF r.ret THEN Append(accepted, next_key) ELSE accepted
       /\ kev' = [op |-> "enqueue", event |-> next_key, ret |-> r.ret]
  /\ UNCHANGED delivered
  /\ UNCHANGED <<ovars, qvars, yvars, ivars>>

\* a keyboard_dequeue call of key_get or of the kernel's shell
KeyboardDequeue ==
  /\ \E r \in {keyboard_dequeue(keyboard_queue)} :
       /\ keyboard_queue' = r.queue
       /\ delivered' = IF r.ret THEN Append(delivered, r.event) ELSE delivered
       /\ kev' = [op |-> "dequeue", event |-> r.event, ret |-> r.ret]
  /\ UNCHANGED <<accepted, next_key>>
  /\ UNCHANGED <<ovars, qvars, yvars, ivars>>

KeyboardNext == KeyboardEnqueue \/ KeyboardDequeue

(***************************************************************************)
(* Part XI: the kernel's large heap (memory.c)                             *)
(***************************************************************************)
\* memory_alloc calls in a run
MaxHeapCalls == 2

\* MEMORY_LARGE_HEAP_START, 0xffffffff81000000 (memory.c:104)
MEMORY_LARGE_HEAP_START ==
  Linear(PAGING_PML4_SIZE - 1, PAGING_PDPT_SIZE - 2, 8, 0, 0)

\* MEMORY_BUFZONE_SIZE (memory.c:105)
MEMORY_BUFZONE_SIZE == 4 * PAGE_SIZE

\* the first of the frames memory_enable_large_heap acquired for the buffer
\* zone, from memory that the boot code released before the model's run
BufzoneFrame == 32

\* memory_enable_large_heap (memory.c:108), its paging_map call
memory_enable_large_heap(w) ==
  Then(paging_map(KernelPageset(w), MEMORY_LARGE_HEAP_START,
                  Physical(BufzoneFrame, 0), MEMORY_BUFZONE_SIZE \div PAGE_SIZE,
                  {}),
       LAMBDA m : PutKernel(w, m.ps))

\* the pages memory_alloc maps and moves memory_heap_end by after
\* memory_free_region_acquire(pages, &physical_base) returned granted
\* (memory.c:152-165)
GrowMapped(pages_, granted) == pages_

\* memory_alloc (memory.c:137) with the large heap enabled and growing
\* allowed; heap is memory_heap_end in pages and memory_heap_length.  The one
\* pass of the loop leaves the heap long enough.  ret is the offset of the
\* result from memory_heap_start, NONE for NULL.  The table pages paging_map
\* asks for while growing is off are the table pages of the other parts.
memory_alloc(t, w, heap, size) ==
  LET length == heap.length + size
      done == [t |-> t, w |-> w, heap |-> [heap EXCEPT !.length = length],
               ret |-> heap.length, pages |-> 0, granted |-> 0, base |-> 0,
               mapped |-> 0]
  IN IF length > heap.end * PAGE_SIZE - MEMORY_BUFZONE_SIZE
       THEN LET grow == length + MEMORY_BUFZONE_SIZE - heap.end * PAGE_SIZE
                pages_ == LengthPages(grow)
            IN Then(memory_free_region_acquire(t, pages_),
                    LAMBDA r :
                      IF r.t.fault \/ r.granted = 0
                        THEN [done EXCEPT !.t = r.t, !.ret = NONE,
                                          !.pages = pages_]
                        ELSE Then(paging_map(
                                    KernelPageset(w),
                                    LinearPlusPages(MEMORY_LARGE_HEAP_START,
                                                    heap.end),
                                    Physical(r.base \div PAGE_SIZE, 0),
                                    GrowMapped(pages_, r.granted), {}),
                                  LAMBDA m :
                                    [done EXCEPT
                                       !.t = r.t, !.w = PutKernel(w, m.ps),
                                       !.heap.end =
                                          @ + GrowMapped(pages_, r.granted),
                                       !.pages = pages_,
                                       !.granted = r.granted,
                                       !.base = r.base \div PAGE_SIZE,
                                       !.mapped = m.mapped]))
       ELSE done

\* the sizes memory_alloc is called with, in bytes
HeapSizes == {1, PAGE_SIZE, PAGE_SIZE + 1, 2 * PAGE_SIZE}

NoHeapCall ==
  [op |-> "none", size |-> 0, ret |-> NONE, old_end |-> 0, pages |-> 0,
   granted |-> 0, base |-> 0, mapped |-> 0, halted |-> FALSE]

\* the heap after memory_enable_large_heap
KernelHeapIdle ==
  /\ memory_heap_end = MEMORY_BUFZONE_SIZE \div PAGE_SIZE
  /\ memory_heap_length = 0
  /\ heap_calls = 0
  /\ yev = NoHeapCall

\* a memory_alloc call of the kernel
MemoryAlloc(size) ==
  /\ ~pfault /\ ~mfault /\ ~yev.halted /\ ~gev.halted
  /\ heap_calls < MaxHeapCalls
  /\ heap_calls' = heap_calls + 1
  /\ \E r \in {memory_alloc(M, World,
                            [end |-> memory_heap_end,
                             length |-> memory_heap_length], size)} :
       LET halted == r.t.fault \/ r.w.fault
       IN /\ yev' = [op |-> "alloc", size |-> size,
                     ret |-> IF halted THEN NONE ELSE r.ret,
                     old_end |-> memory_heap_end, pages |-> r.pages,
                     granted |-> r.granted, base |-> r.base,
                     mapped |-> r.mapped, halted |-> halted]
          /\ memory_heap_end' = IF halted THEN memory_heap_end ELSE r.heap.end
          /\ memory_heap_length' =
               IF halted THEN memory_heap_length ELSE r.heap.length
          /\ MStore(IF halted THEN Fault(r.t) ELSE r.t, "heap", size, NULL,
                    r.granted, NONE, <<>>,
                    owned \cup Run(r.base * PAGE_SIZE, r.granted))
          /\ WorldStore(IF halted THEN [r.w EXCEPT !.fault = TRUE] ELSE r.w,
                        [NoCall EXCEPT !.op = "heap"])
  /\ UNCHANGED <<node_count, map_calls, unmap_calls>>
  /\ UNCHANGED <<memory, registers, gev>>
  /\ UNCHANGED <<svars, avars, lvars, cvars, hvars, qvars, kvars, ivars>>

\* the page-set variables after paging_initialize and
\* memory_enable_large_heap
KernelInit ==
  /\ pml4 = NULL
  /\ map_calls = 0 /\ unmap_calls = 0 /\ pev = NoCall /\ pfault = FALSE
  /\ memory = [f \in Frames |-> [o \in {} |-> NoCell]]
  /\ registers = [rdi |-> 0, rsi |-> NullPointer]
  /\ gev = NoArgs
  /\ \E w \in {memory_enable_large_heap(paging_initialize(BootWorld))} :
       /\ tables = [p \in TablePages |-> w.tables[p]]
       /\ table_map = w.table_map
       /\ table_count = w.table_count
       /\ kernel_pml4 = w.tables[KernelPml4]
       /\ kernel_table_map = w.kernel_table_map

\* the arguments of the process_set_args calls beside the heap's calls
KernelArgInputs == {a \in ArgInputs : a.argc = 1}

\* memory_free_region_release by the boot code, before the kernel's first
\* memory_alloc
KernelBootRelease(f, n) ==
  /\ heap_calls = 0
  /\ ArgsBootRelease(f, n)

KernelNext ==
  \/ \E f \in Frames, n \in 1..MaxRequest : KernelBootRelease(f, n)
  \/ ArgsCreatePageset
  \/ \E a \in KernelArgInputs, kernel_context \in BOOLEAN :
       SetArgs(a.argc, a.argv, kernel_context)
  \/ \E size \in HeapSizes : MemoryAlloc(size)

(***************************************************************************)
(* Part XII: paging_map and paging_unmap on the page set of a process at   *)
(* the end of the lower half (paging.c)                                    *)
(***************************************************************************)
\* the addresses of the calls: the last two pages of the lower half, the
\* first page of the higher half, and the kernel's heap
HalfBases ==
  {LinearAddPages(Linear(PAGING_PML4_HALF - 1, PAGING_PDPT_SIZE - 1,
                         PAGING_PD_SIZE - 1, PAGING_PT_SIZE - 2, 0), i) :
     i \in 0..2}
    \cup {MEMORY_LARGE_HEAP_START}

\* paging_map on the page set of the process
UserMap(linear, requested) ==
  /\ pml4 # NULL /\ ~pfault
  /\ map_calls < MaxMapCalls
  /\ map_calls' = map_calls + 1
  /\ \E r \in {paging_map(UserPageset(World), linear, Physical(FirstFrame, 0),
                          requested, {})} :
       WorldStore(PutUser(World, r.ps),
                  [op |-> "map", linear |-> linear,
                   physical |-> Physical(FirstFrame, 0), pages |-> requested,
                   flags |-> {}, ret |-> r.mapped, nomem |-> r.nomem])
  /\ UNCHANGED <<unmap_calls, memory, registers, gev>>
  /\ UNCHANGED <<svars, mvars, avars, lvars, cvars, hvars, wvars>>

\* paging_unmap on the page set of the process
UserUnmap(linear, requested) ==
  /\ pml4 # NULL /\ ~pfault
  /\ unmap_calls < MaxUnmapCalls
  /\ unmap_calls' = unmap_calls + 1
  /\ \E r \in {paging_unmap(UserPageset(World), linear, requested)} :
       WorldStore(PutUser(World, r.ps),
                  [NoCall EXCEPT !.op = "unmap", !.linear = linear,
                                 !.pages = requested, !.ret = r.unmapped])
  /\ UNCHANGED <<map_calls, memory, registers, gev>>
  /\ UNCHANGED <<svars, mvars, avars, lvars, cvars, hvars, wvars>>

HalfNext ==
  \/ ArgsCreatePageset
  \/ \E linear \in HalfBases, requested \in 1..MaxMapPages :
       UserMap(linear, requested)
  \/ \E linear \in HalfBases, requested \in 1..MaxMapPages :
       UserUnmap(linear, requested)

(***************************************************************************)
(* Part XIII: memory_initialize and the memory map of the boot loader      *)
(* (memory.c)                                                              *)
(***************************************************************************)
\* PREALLOCATED, 4 MiB (memory.c:57)
PREALLOCATED == 4194304

\* the type of an entry the boot loader marks as available RAM
MULTIBOOT_MEMORY_AVAILABLE == 1

\* entries in a memory map
MaxEntries == 2

NoRegion == [released |-> FALSE, physical_base |-> 0, pages |-> 0]

\* the body of the loop of memory_initialize for one entry (memory.c:70-98):
\* the region given to memory_free_region_release, if any
EntryRegion(entry) ==
  IF /\ entry.type = MULTIBOOT_MEMORY_AVAILABLE
     /\ entry.len >= PAGE_SIZE + (entry.addr % PAGE_SIZE)
    THEN LET base == IF entry.addr % PAGE_SIZE # 0
                       THEN ((entry.addr \div PAGE_SIZE) + 1) * PAGE_SIZE
                       ELSE entry.addr
             count == (entry.len - (entry.addr % PAGE_SIZE)) \div PAGE_SIZE
             diff == (PREALLOCATED - base) \div PAGE_SIZE
         IN IF base < PREALLOCATED
              THEN IF diff < count
                     THEN [released |-> TRUE,
                           physical_base |-> base + diff * PAGE_SIZE,
                           pages |-> count - diff]
                     ELSE NoRegion
              ELSE [released |-> TRUE, physical_base |-> base, pages |-> count]
    ELSE NoRegion

\* memory_initialize (memory.c:54) from entry i of the map on: entry->size
\* leads from one entry to the next.  nodes is the number of nodes
\* memory_free_region_release has taken from the heap; regions is the
\* region released for each entry.
RECURSIVE memory_initialize(_, _, _, _, _)
memory_initialize(t, mmap, i, nodes, regions) ==
  IF i > Len(mmap) \/ t.fault
    THEN [t |-> t, nodes |-> nodes, regions |-> regions]
    ELSE Then(EntryRegion(mmap[i]),
              LAMBDA r :
                IF r.released
                  THEN memory_initialize(
                         memory_free_region_release(t, nodes + 1,
                                                    r.physical_base, r.pages),
                         mmap, i + 1, nodes + 1, Append(regions, r))
                  ELSE memory_initialize(t, mmap, i + 1, nodes,
                                         Append(regions, r)))

Entry(addr, len, type) == [addr |-> addr, len |-> len, type |-> type]

\* entries below, across and above the 4 MiB boundary, with aligned and
\* unaligned addresses and lengths around one and two pages
MmapEntries ==
  {Entry(addr, len, type) :
     addr \in {0, 1, PREALLOCATED - PAGE_SIZE, PREALLOCATED - PAGE_SIZE + 1,
               PREALLOCATED, PREALLOCATED + 1, PREALLOCATED + PAGE_SIZE - 1},
     len \in {0, PAGE_SIZE - 1, PAGE_SIZE, PAGE_SIZE + 1, 2 * PAGE_SIZE - 1,
              2 * PAGE_SIZE, 2 * PAGE_SIZE + 1, PREALLOCATED + 2 * PAGE_SIZE},
     type \in {MULTIBOOT_MEMORY_AVAILABLE, MULTIBOOT_MEMORY_AVAILABLE + 1}}

\* the entries of the maps with more than one entry: low memory, a reserved
\* range, memory across the boundary and memory above it
MmapParts ==
  <<Entry(0, 654336, MULTIBOOT_MEMORY_AVAILABLE),
    Entry(654336, 1024, MULTIBOOT_MEMORY_AVAILABLE + 1),
    Entry(PREALLOCATED - 2 * PAGE_SIZE, 4 * PAGE_SIZE,
          MULTIBOOT_MEMORY_AVAILABLE),
    Entry(PREALLOCATED + 8 * PAGE_SIZE, 2 * PAGE_SIZE,
          MULTIBOOT_MEMORY_AVAILABLE)>>

\* the memory maps: one entry, or up to MaxEntries of the parts in the order
\* of their addresses
MmapInputs ==
  {<<e>> : e \in MmapEntries}
    \cup {[k \in 1..n |-> MmapParts[first + k - 1]] :
            <<first, n>> \in {x \in (1..Len(MmapParts)) \X (2..MaxEntries) :
                                x[1] + x[2] - 1 <= Len(MmapParts)}}

NoInitialize == [op |-> "none", regions |-> <<>>, halted |-> FALSE]

\* no memory map: memory_initialize is not part of the run
MemoryMapIdle ==
  /\ mmap_buffer = <<>>
  /\ iev = NoInitialize

\* memory_initialize(mmap_buffer, mmap_length), called once by the kernel's
\* entry point
MemoryInitialize ==
  /\ iev.op = "none" /\ ~mfault
  /\ \E r \in {memory_initialize(M, mmap_buffer, 1, node_count, <<>>)} :
       /\ iev' = [op |-> "initialize", regions |-> r.regions,
                  halted |-> r.t.fault]
       /\ node_count' = IF r.t.fault THEN node_count ELSE r.nodes
       /\ MStore(r.t, "initialize", Len(mmap_buffer), NULL, 0, NONE, <<>>,
                 owned)
  /\ memory_heap_length' = 0
  /\ UNCHANGED <<mmap_buffer, memory_heap_end, heap_calls, yev>>
  /\ UNCHANGED <<svars, pvars, avars, lvars, cvars, hvars, gvars, qvars, kvars>>

\* memory_free_region_acquire by the kernel after memory_initialize
MemoryMapAcquire(req) ==
  /\ iev.op = "initialize" /\ ~mfault
  /\ mev.op = "initialize"
  /\ Acquire(req)

MemoryMapNext ==
  \/ MemoryInitialize
  \/ \E req \in 1..MaxRequest : MemoryMapAcquire(req)

(***************************************************************************)
(* Specifications                                                          *)
(***************************************************************************)
vars == <<svars, mvars, pvars, xvars>>

\* Spec: the scheduler, with the first MaxRun processes run and no latency
\* recorded; the frame allocator is left alone
\* the parts most specifications leave alone are idle
RestIdle == ProcMemIdle /\ KeyboardIdle /\ KernelHeapIdle /\ MemoryMapIdle

HeapInit == heap_physical = [p \in TablePages |-> HeapBase + p]

Init ==
  /\ SchedInit /\ run_limit = MaxRun /\ timing = NULL /\ MemInit
  /\ PagingInit /\ HeapInit /\ ArchiveIdle /\ SwitchIdle
  /\ CreateIdle /\ user_readable = FALSE /\ AdjustIdle /\ ArgsIdle /\ RestIdle

Next == SchedNext

Spec == Init /\ [][Next]_vars

\* TimingSpec: the scheduler with every process run and the wake-up latency
\* of the first process recorded
TimingInit ==
  /\ SchedInit /\ run_limit = NumProcs /\ timing = 1 /\ MemInit
  /\ PagingInit /\ HeapInit /\ ArchiveIdle /\ SwitchIdle
  /\ CreateIdle /\ user_readable = FALSE /\ AdjustIdle /\ ArgsIdle /\ RestIdle

TimingSpec == TimingInit /\ [][Next]_vars

\* MemSpec: the frame allocator under release and acquire calls; no process
\* is run
MemSpecInit ==
  /\ SchedInit /\ run_limit = MaxRun /\ timing = NULL /\ MemInit
  /\ PagingInit /\ HeapInit /\ ArchiveIdle /\ SwitchIdle
  /\ CreateIdle /\ user_readable = FALSE /\ AdjustIdle /\ ArgsIdle /\ RestIdle

MemSpec == MemSpecInit /\ [][MemNext]_vars

\* AllocSpec: the frame allocator with process_alloc as the caller of acquire
AllocSpec == MemSpecInit /\ [][AllocNext]_vars

\* PagingSpec: a page set is created and mapped into; the kernel heap hands
\* out the table pages, over page frames in one of several orders
PagingSpecInit ==
  /\ SchedInit /\ run_limit = MaxRun /\ timing = NULL /\ MemInit
  /\ PagingInit /\ heap_physical \in HeapPhysicalInputs /\ ArchiveIdle /\ SwitchIdle
  /\ CreateIdle /\ user_readable = FALSE /\ AdjustIdle /\ ArgsIdle /\ RestIdle

PagingSpec == PagingSpecInit /\ [][PagingNext]_vars

\* PagesetSpec: a page set is created, mapped into, unmapped from and
\* destroyed
PagesetSpec == PagingSpecInit /\ [][PagesetNext]_vars

\* ArchiveSpec: archive_verify on an entry of up to MaxBody bytes
ArchiveSpecInit ==
  /\ SchedInit /\ run_limit = MaxRun /\ timing = NULL /\ MemInit
  /\ PagingInit /\ HeapInit /\ ArchiveInit /\ SwitchIdle
  /\ CreateIdle /\ user_readable = FALSE /\ AdjustIdle /\ ArgsIdle /\ RestIdle

ArchiveSpec == ArchiveSpecInit /\ [][ArchiveNext]_vars

\* SwitchSpec: processes are run and process_switch is called, to a process
\* or back to the kernel
SwitchSpecInit ==
  /\ SchedInit /\ run_limit = MaxRun /\ timing = NULL /\ MemInit
  /\ PagingInit /\ HeapInit /\ ArchiveIdle /\ SwitchInit
  /\ CreateIdle /\ user_readable = FALSE /\ AdjustIdle /\ ArgsIdle /\ RestIdle

SwitchSpec == SwitchSpecInit /\ [][SwitchNext]_vars

\* CreateSpec: process_create calls one after the other, from a context in
\* which the lower half of the address space is or is not readable
CreateSpecInit ==
  /\ SchedInit /\ run_limit = MaxRun /\ timing = NULL /\ MemInit
  /\ PagingInit /\ HeapInit /\ ArchiveIdle /\ SwitchIdle
  /\ CreateIdle /\ user_readable \in BOOLEAN /\ AdjustIdle /\ ArgsIdle /\ RestIdle

CreateSpec == CreateSpecInit /\ [][CreateNext]_vars

\* ProcMemSpec: the boot code releases the free memory, a process gets its
\* page set, and process_alloc and process_free are called for it
ProcMemSpec == Init /\ [][ProcMemNext]_vars

\* KeyboardSpec: the interrupt handler enqueues key events and key_get
\* dequeues them
KeyboardSpec == Init /\ [][KeyboardNext]_vars

\* KernelSpec: after paging_initialize and memory_enable_large_heap the boot
\* code releases the free memory, the kernel allocates from its heap, a
\* process gets its page set and process_set_args is called for it
KernelSpecInit ==
  /\ SchedInit /\ run_limit = MaxRun /\ timing = NULL /\ MemInit
  /\ HeapInit /\ KernelInit /\ ArchiveIdle /\ SwitchIdle
  /\ CreateIdle /\ user_readable = FALSE /\ AdjustIdle /\ RestIdle

KernelSpec == KernelSpecInit /\ [][KernelNext]_vars

\* HalfSpec: after paging_initialize and memory_enable_large_heap a process
\* gets its page set, and paging_map and paging_unmap are called on it at the
\* end of the lower half and in the higher half
HalfSpec == KernelSpecInit /\ [][HalfNext]_vars

\* MemoryMapSpec: the boot loader hands over a memory map and the kernel
\* calls memory_initialize with it
MemoryMapInit ==
  /\ SchedInit /\ run_limit = MaxRun /\ timing = NULL /\ MemInit
  /\ PagingInit /\ HeapInit /\ ArgsIdle /\ ArchiveIdle /\ SwitchIdle
  /\ CreateIdle /\ user_readable = FALSE /\ AdjustIdle
  /\ ProcMemIdle /\ KeyboardIdle /\ KernelHeapIdle
  /\ mmap_buffer \in MmapInputs /\ iev = NoInitialize

MemoryMapSpec == MemoryMapInit /\ [][MemoryMapNext]_vars

\* AdjustSpec: the boot code releases the free memory, a process gets its
\* page set and adjusts its heap
AdjustSpec == Init /\ [][AdjustNext]_vars

\* ArgsSpec: after paging_initialize the boot code releases the free memory,
\* a process gets its page set and process_set_args is called for it
ArgsSpecInit ==
  /\ SchedInit /\ run_limit = MaxRun /\ timing = NULL /\ MemInit
  /\ HeapInit /\ ArgsInit /\ ArchiveIdle /\ SwitchIdle
  /\ CreateIdle /\ user_readable = FALSE /\ AdjustIdle /\ RestIdle

ArgsSpec == ArgsSpecInit /\ [][ArgsNext]_vars

(***************************************************************************)
(* Run queue as the list reachable from run_queue_front                    *)
(***************************************************************************)
Queue == QueueOf(K)

Occurrences(p) == Cardinality({i \in 1..Len(Queue) : Queue[i] = p})

\* the list ends: no process is linked twice
ProperQueue == Len(Queue) <= NumProcs

(***************************************************************************)
(* Claims about the scheduler                                              *)
(***************************************************************************)
\* C1: in every reachable state each Running process is the current process
\* or is present exactly once in the run queue, and no process is linked into
\* the run queue twice.
C1_RunningCurrentOrQueuedOnce ==
  \A p \in Procs :
    /\ Occurrences(p) <= 1
    /\ state[p] = PROCESS_STATE_RUNNING
         => (p = process_current \/ Occurrences(p) = 1)

\* C2: after a process has called scheduler_sleep, scheduler_dequeue_run does
\* not return it and its scheduler_sleep does not return until scheduler_wake
\* has been called on it.
C2_AsleepUntilWoken ==
  \A p \in Procs : unwoken[p] => (ev.deq # p /\ ev.sret # p)

\* C3: scheduler_dequeue_run returns the processes in the order in which
\* scheduler_enqueue_run was given them, and NULL exactly when every enqueued
\* process has been dequeued.
C3_DequeueInEnqueueOrder == fifo_ok

\* C4: a Running process that yields while others are queued is placed behind
\* all of them, and the process that was at the front becomes the current one
\* (checked from states in which the run queue is a proper list).
YieldStep(p) == ev'.op = "yield" /\ ev'.arg = p

C4_YieldGoesBehind ==
  [][\A p \in Procs :
       (YieldStep(p) /\ state[p] = PROCESS_STATE_RUNNING
          /\ Queue # <<>> /\ ProperQueue)
         => (process_current' = Head(Queue) /\ Queue' = Append(Tail(Queue), p))]_vars

\* C5: scheduler_wake(p) returns true exactly when p is Sleeping, and then p
\* is Running and appended at the back of the run queue; otherwise it returns
\* false and changes neither a process state nor the run queue (the append is
\* checked from states in which the run queue is a proper list).
WakeStep(q) == ev'.op \in {"wake", "irqwake"} /\ ev'.arg = q

C5_WakeResult ==
  [][\A q \in Procs :
       WakeStep(q) =>
         IF state[q] = PROCESS_STATE_SLEEPING
           THEN /\ ev'.ret
                /\ state' = [state EXCEPT ![q] = PROCESS_STATE_RUNNING]
                /\ ProperQueue => Queue' = Append(Queue, q)
           ELSE /\ ~ev'.ret
                /\ UNCHANGED <<state, run_queue_front, run_queue_back,
                               run_queue_next>>]_vars

\* C8: a woken process is switched to, and resumes after its scheduler_sleep,
\* before more context switches to other processes have happened than there
\* were processes ahead of it in the run queue when it was woken.
C8_ResumedWithinQueueAhead ==
  \A p \in Procs : ahead[p] # NONE => passed[p] <= ahead[p]

\* C6: in every reachable state a Sleeping process is neither the current
\* process nor present in the run queue.
C6_SleepingNeitherCurrentNorQueued ==
  \A p \in Procs :
    state[p] = PROCESS_STATE_SLEEPING
      => (p # process_current /\ Occurrences(p) = 0)

\* C7: when scheduler_tick returns to its caller, process_current is what it
\* was when the caller made the call.
C7_TickReturnsWithSameCurrent ==
  ev.tret # NONE => process_current = saved_current[ev.tret]

\* a scheduler_tick has returned in a process that was switched away from and
\* has now been switched back to
C7_Witness ==
  /\ ev.tret \in Procs
  /\ ev.sw = ev.tret
  /\ ev.op \in {"yield", "sleep", "exit", "hlt"}
  /\ ev.arg # ev.tret

\* C9: a Dead process is never enqueued, never passed to process_switch and
\* never Running again.
C9_DeadNeverScheduled ==
  \A p \in Procs :
    state[p] = PROCESS_STATE_DEAD => (Occurrences(p) = 0 /\ ev.sw # p)

(***************************************************************************)
(* Claims about the frame allocator                                        *)
(***************************************************************************)
\* C10: after any sequence of release and acquire calls the total-free
\* counter equals the sum of pages over the region nodes reachable from the
\* root of the free-region tree.
C10_TotalFreeIsSumOfTree == memory_get_total_free(M) = SumPages(TreeNodes)

\* the addresses of region node n: [RegionBase(n), RegionEnd(n))
RegionBase(n) == physical_base[n]

RegionEnd(n) == physical_base[n] + pages[n] * PAGE_SIZE

\* C11: release being called only with 4 KiB-aligned, non-empty ranges that
\* are not free (Release takes them from the frames the callers hold), the
\* regions in the free tree never overlap one another, each has a 4
\* KiB-aligned base and each has pages > 0.
C11_FreeRegionsDisjointAligned ==
  /\ \A i \in 1..Len(TreeNodes) :
       /\ RegionBase(TreeNodes[i]) % PAGE_SIZE = 0
       /\ pages[TreeNodes[i]] > 0
  /\ \A i, j \in 1..Len(TreeNodes) :
       i # j => \/ RegionEnd(TreeNodes[i]) <= RegionBase(TreeNodes[j])
                \/ RegionEnd(TreeNodes[j]) <= RegionBase(TreeNodes[i])

\* a split has left its remainder just below the granted run, with other
\* regions in the tree
C11_Witness ==
  /\ mev.op = "acquire" /\ mev.granted = mev.req /\ ~mfault
  /\ Len(TreeNodes) >= 2
  /\ \E i \in 1..Len(TreeNodes) : RegionEnd(TreeNodes[i]) = mev.base

\* the region nodes in the free tree
TreeSet == {TreeNodes[i] : i \in 1..Len(TreeNodes)}

\* the regions of the free tree that can serve a request of req pages
Sufficient(req) == {n \in TreeSet : pages[n] >= req}

\* this step is a call of memory_free_region_acquire(req, &base)
AcquireStep(req) == mev'.op = "acquire" /\ mev'.req = req

TreeUnchanged ==
  UNCHANGED <<root, color, parent, left, right, physical_base, pages, total_free>>

AllocStep(n) == mev'.op = "alloc" /\ mev'.req = n

\* C14: with total_free >= n > 0 the loop of process_alloc, which calls
\* acquire for what remains and subtracts what it was granted, ends with the
\* granted counts summing to n; every granted run is 4 KiB-aligned, lies in
\* frames that were released and not handed out since, and overlaps no other
\* granted run.
C14_AllocLoopFulfils ==
  [][\A n \in 1..MaxAlloc :
       (AllocStep(n) /\ memory_get_total_free(M) >= n) =>
         /\ ~mfault'
         /\ SumRuns(mev'.runs) = n
         /\ \A i \in 1..Len(mev'.runs) :
              /\ mev'.runs[i][1] % PAGE_SIZE = 0
              /\ Run(mev'.runs[i][1], mev'.runs[i][2]) \cap owned = {}
              /\ Cardinality(Run(mev'.runs[i][1], mev'.runs[i][2])) = mev'.runs[i][2]
              /\ \A j \in 1..Len(mev'.runs) :
                   i # j => Run(mev'.runs[i][1], mev'.runs[i][2])
                              \cap Run(mev'.runs[j][1], mev'.runs[j][2]) = {}]_vars

\* this step is a call of memory_free_region_release(base, n)
ReleaseStep(n) == mev'.op = "release" /\ mev'.req = n

\* C15: every memory_free_region_acquire call lowers memory_get_total_free()
\* by exactly the count it returns, and memory_free_region_release(base, n)
\* raises it by exactly n (so that releasing what an acquire granted restores
\* the value from before the acquire).
C15_CounterFollowsCalls ==
  [][/\ \A req \in 1..MaxRequest :
          AcquireStep(req) =>
            ~mfault' /\ total_free' = total_free - mev'.granted
     /\ \A n \in 1..MaxFrames :
          ReleaseStep(n) => ~mfault' /\ total_free' = total_free + n]_vars

\* C16: when acquire(n) has returned (base, n) and release(base, n) is called
\* right after it, the release returns and the next acquire(n) returns the
\* same base again, whatever the free tree holds.
C16_ReacquireSameBase ==
  [][/\ mev'.op = "release" /\ mev'.back => ~mfault'
     /\ \A n \in 1..MaxRequest :
          (mev.op = "release" /\ mev.back /\ mev.req = n /\ AcquireStep(n)) =>
            mev'.granted = n /\ mev'.base = mev.base]_vars

\* the numbers of black nodes met on the paths from node down to a null leaf
RECURSIVE NullPathBlacks(_, _, _)
NullPathBlacks(node, blacks, depth) ==
  IF node = NULL
    THEN {blacks}
    ELSE IF depth = 0
      THEN {}
      ELSE LET b == IF color[node] = RBTREE_COLOR_BLACK THEN blacks + 1 ELSE blacks
           IN NullPathBlacks(left[node], b, depth - 1)
                \cup NullPathBlacks(right[node], b, depth - 1)

\* C17: after any sequence of insertions (the node placed by the consumer,
\* then rbtree_balance_insert) and rbtree_delete calls the tree is a valid
\* red-black tree: the root is black, no red node has a red child, and all
\* paths from a node to a null leaf hold the same number of black nodes.
C17_ValidRedBlackTree ==
  /\ root # NULL => color[root] = RBTREE_COLOR_BLACK
  /\ \A n \in TreeSet :
       color[n] = RBTREE_COLOR_RED =>
         BlackOrNull(M, left[n]) /\ BlackOrNull(M, right[n])
  /\ Cardinality(NullPathBlacks(root, 0, MaxNodes)) <= 1

\* C18: rbtree_delete(tree, node) detaches exactly the given node: every
\* other node that was in the tree before the call is reachable from the root
\* after it, whether the node had zero, one or two children.
C18_DeleteKeepsOtherNodes ==
  [][\A req \in 1..MaxRequest :
       (AcquireStep(req) /\ mev'.node # NULL) =>
         (TreeSet \ {mev'.node}) \subseteq TreeSet']_vars

MappedAll == pev.op = "map" /\ pev.ret = pev.pages /\ ~pfault

\* offsets into a page that the translation is looked at
Offsets == {0, 1, HalfPage, PAGE_SIZE - 1}

\* paging_resolve_linear_address of V + i * 4096 + off is P + i * 4096 + off,
\* for V and P of the last call
ResolvesTo(i, off) ==
  LET r == paging_resolve_linear_address(
             PS, LinearAddBytes(LinearAddPages(pev.linear, i), off))
  IN /\ r.ok
     /\ r.physical = PhysicalAdd(PhysicalAdd(pev.physical, i * PAGE_SIZE), off)

\* C19 as stated, for any V and P: after a paging_map(V, P, n, flags) on the
\* created page set that returned n, V + i * 4096 + off resolves to
\* P + i * 4096 + off for every page i of the call and every offset
C19_AnyAddress ==
  MappedAll =>
    \A i \in 0..(pev.pages - 1), off \in Offsets : ResolvesTo(i, off)

\* C19, for V and P that are multiples of the page size: after a
\* paging_map(V, P, n, flags) on the created page set that returned n,
\* V + i * 4096 + off resolves to P + i * 4096 + off for every page i of the
\* call and every offset, also when the pages lie in different page tables,
\* page directories or PDPTs
C19_MapThenResolve ==
  (MappedAll /\ pev.linear.offset = 0 /\ pev.physical.offset = 0) =>
    \A i \in 0..(pev.pages - 1), off \in Offsets : ResolvesTo(i, off)

\* two pages were mapped, the first the last page of a PDPT and the second
\* the first page of the next one
C19_Witness ==
  /\ MappedAll /\ pev.linear.offset = 0 /\ pev.physical.offset = 0
  /\ pev.pages = 2
  /\ pev.linear.pt_index = PAGING_PT_SIZE - 1
  /\ pev.linear.pd_index = PAGING_PD_SIZE - 1
  /\ pev.linear.pdpt_index = PAGING_PDPT_SIZE - 1
  /\ pev.linear.pml4_index = 0

(***************************************************************************)
(* C20: a present leaf entry is not mapped over                            *)
(***************************************************************************)
MapStep == map_calls' # map_calls

PageMapped(ps, linear) == paging_get_entry_pointers(ps, linear).ok

\* the pages a call can touch
PageInputs ==
  {LinearAddPages(b, i) : b \in LinearBases, i \in 0..(2 + MaxMapPages)}

\* the pages of the run of n pages from linear that come before the first
\* page with a present leaf entry
RECURSIVE FreeRun(_, _, _)
FreeRun(ps, linear, n) ==
  IF n = 0 \/ PageMapped(ps, linear)
    THEN 0
    ELSE 1 + FreeRun(ps, LinearAddPage(linear), n - 1)

\* C20: a paging_map never maps a page whose leaf entry is present nor any
\* page of the call after it: over a run that holds such a page it returns
\* the number of pages before the first one (0 when that is the first page of
\* the call; fewer only when the kernel heap ran out on the way to it); and no
\* paging_map changes the frame or the flags of a leaf entry that was present
C20_PresentLeafRefused ==
  [][MapStep =>
       /\ ~pfault'
       /\ pev'.ret <= FreeRun(PS, pev'.linear, pev'.pages)
       /\ (FreeRun(PS, pev'.linear, pev'.pages) < pev'.pages /\ ~pev'.nomem)
            => pev'.ret = FreeRun(PS, pev'.linear, pev'.pages)
       /\ \A l \in PageInputs :
            PageMapped(PS, l) =>
              paging_get_entry_pointers(PS', l)
                = paging_get_entry_pointers(PS, l)]_vars

\* a call for two pages mapped the first and stopped at the second, which
\* keeps the frame and the flags another call gave it
C20_Witness ==
  /\ pev.op = "map" /\ pev.pages = 2 /\ pev.ret = 1 /\ ~pev.nomem /\ ~pfault
  /\ LET e == paging_get_entry_pointers(PS, LinearAddPage(pev.linear))
     IN /\ e.ok
        /\ e.pt_entry.page_physical # pev.physical.frame + 1
        /\ (e.pt_entry.writable = 1) # (PAGING_READONLY \notin pev.flags)

(***************************************************************************)
(* C21: unmapping a range in which nothing is mapped                       *)
(***************************************************************************)
UnmapStep == unmap_calls' # unmap_calls

\* the n pages from linear lie in the lower half, the part of the PML4 a
\* page set that is not the kernel's may use
RangeInside(linear, n) ==
  /\ linear.pml4_index < PAGING_PML4_HALF
  /\ LinearPlusPages(linear, n - 1).pml4_index < PAGING_PML4_HALF
  /\ LinearPlusPages(linear, n - 1).pml4_index >= linear.pml4_index

\* no page of the n pages from linear has a present leaf entry
RangeUnmapped(ps, linear, n) ==
  \A i \in 0..(n - 1) : ~PageMapped(ps, LinearPlusPages(linear, i))

\* the page table of a linear address, NULL when a PML4, PDPT or PD entry on
\* the way to it is not present
PageTableOf(ps, linear) ==
  IF EntryAt(ps, ps.pml4, linear.pml4_index).present = 0 THEN NULL
  ELSE LET pdpt == TableOf(ps, ps.pml4, linear.pml4_index)
       IN IF EntryAt(ps, pdpt, linear.pdpt_index).present = 0 THEN NULL
          ELSE LET pd == TableOf(ps, pdpt, linear.pdpt_index)
               IN IF EntryAt(ps, pd, linear.pd_index).present = 0 THEN NULL
                  ELSE TableOf(ps, pd, linear.pd_index)

\* C21: a paging_unmap(V, n) over a range of the lower half in which no page
\* is mapped returns n and changes no entry of any table and nothing in the
\* table map, whether the absence shows at the PML4, a PDPT, a PD or a PT
C21_UnmapOfUnmappedRange ==
  [][(/\ UnmapStep
      /\ RangeInside(pev'.linear, pev'.pages)
      /\ RangeUnmapped(PS, pev'.linear, pev'.pages))
       => /\ ~pfault'
          /\ pev'.ret = pev'.pages
          /\ tables' = tables
          /\ table_map' = table_map]_vars

\* an unmap of more pages than a page table holds began at unmapped pages of
\* a page table that exists and went on over page-directory entries that are
\* not present
C21_Witness ==
  /\ pev.op = "unmap" /\ ~pfault
  /\ pev.pages = PAGING_PT_4KPAGES + 1 /\ pev.ret = pev.pages
  /\ RangeInside(pev.linear, pev.pages)
  /\ RangeUnmapped(PS, pev.linear, pev.pages)
  /\ PageTableOf(PS, pev.linear) # NULL
  /\ PageTableOf(PS, LinearAddPages(pev.linear, 2)) = NULL

(***************************************************************************)
(* C22: what paging_destroy_pageset gives back                             *)
(***************************************************************************)
\* C22: after create, map and a paging_destroy_pageset that succeeded, the
\* kernel heap has as many pages in use as before the create, which is none:
\* the pages of the PML4 and of the tables under it were given back
C22_DestroyGivesTablesBack ==
  (pev.op = "destroy" /\ pev.ret = 1 /\ ~pfault /\ map_calls > 0)
    => table_count = 0

(***************************************************************************)
(* C23: the table map knows every table                                    *)
(***************************************************************************)
\* the table page behind a page frame, as the processor finds the table
HeapPageOf(frame) ==
  IF \E p \in 1..table_count : heap_physical[p] = frame
    THEN CHOOSE p \in 1..table_count : heap_physical[p] = frame
    ELSE NULL

\* the PDPTs and PDs of the lower half of the page set, by the page frames
\* in the present entries
OwnedPdpts ==
  {HeapPageOf(EntryAt(PS, pml4, i).page_physical) :
     i \in {j \in PresentAt(PS, pml4) : j < PAGING_PML4_HALF}}

OwnedPds ==
  UNION {{HeapPageOf(EntryAt(PS, pdpt, i).page_physical) :
            i \in PresentAt(PS, pdpt)} : pdpt \in OwnedPdpts \ {NULL}}

BodyWord(k) == [j \in 0..7 |-> IF 8 * k + j + 1 <= Len(body) THEN body[8 * k + j + 1] ELSE 0]

RECURSIVE XorUpTo(_)
XorUpTo(k) == IF k < 0 THEN ZeroWord ELSE WordXor(XorUpTo(k - 1), BodyWord(k))

\* C29: archive_verify accepts the entry exactly when the stored checksum is
\* the XOR of the body's successive little-endian 8-byte words, the last
\* bytes of a body whose length is not a multiple of 8 being a final word
\* padded with zeros
C29_AcceptsPaddedChecksum ==
  aev.op = "verify" =>
    (aev.ret <=> checksum = XorUpTo((Len(body) + 7) \div 8 - 1))

(***************************************************************************)
(* C28: the stack limit after the switch back to the kernel                *)
(***************************************************************************)
\* C28: when process_switch(NULL) has brought the kernel back from a process,
\* after switches through one or more processes that began in the kernel,
\* rust_stack_limit is what it was before the first of them
C28_KernelStackLimitRestored ==
  (/\ lev.op = "switch" /\ lev.process = NULL /\ lev.old_process # NULL
   /\ ~panic)
    => rust_stack_limit = boot_stack_limit

(***************************************************************************)
(* C24: what process_create returns                                        *)
(***************************************************************************)
\* C24: a process_create that succeeds returns a process in state Loading
\* with an id of 1 or more, greater than every id returned before and 1 for
\* the first; a process_create that fails leaves next_id as it was and puts
\* no node into the process list
C24_CreateReturnsNextId ==
  [][(cev'.op = "create" /\ ~cfault') =>
       /\ cev'.ret # NULL =>
            /\ cev'.state = PROCESS_STATE_LOADING
            /\ cev'.id >= 1
            /\ cev'.id > cev'.last
            /\ (cev'.last = 0 => cev'.id = 1)
       /\ cev'.ret = NULL =>
            /\ process_list'.next_id = process_list.next_id
            /\ process_list'.size = process_list.size
            /\ process_list'.nodes = process_list.nodes
            /\ process_list'.root = process_list.root]_vars

(***************************************************************************)
(* C30: what process_free releases is no longer mapped                     *)
(***************************************************************************)
\* the frames of the regions in the free-region tree
FreeFrames ==
  UNION {Run(physical_base[TreeNodes[i]], pages[TreeNodes[i]]) : i \in DOMAIN TreeNodes}

\* the heap pages that resolve in the page set of the process
HeapPagesMapped ==
  {i \in 0..(MaxFrames - 1) : paging_resolve_linear_address(PS, HeapEnd(i)).ok}

\* the frames the heap pages resolve to
HeapFramesMapped ==
  {paging_resolve_linear_address(PS, HeapEnd(i)).physical.frame : i \in HeapPagesMapped}

\* the last call was a process_adjust_heap that went through process_free
\* and returned
ShrinkReturned ==
  /\ hev.op = "adjust" /\ ~hev.halted
  /\ HeapPages(heap_length) < hev.old_pages

\* C30: after a shrinking process_adjust_heap, and so after process_free, has
\* returned, no frame is both in the free-region tree and still mapped in the
\* page set of the process
C30_ReleasedFramesUnmapped ==
  ShrinkReturned => FreeFrames \cap HeapFramesMapped = {}

(***************************************************************************)
(* C25: growing the heap and shrinking it by the same amount               *)
(***************************************************************************)
\* the last call grew the heap by amount bytes and succeeded, and this step
\* is the process_adjust_heap call that takes the same amount off again
GrowThenShrink ==
  /\ hev.op = "adjust" /\ hev.amount > 0
  /\ ~hev.halted /\ hev.alloc # "failed"
  /\ adjust_calls' = adjust_calls + 1
  /\ hev'.op = "adjust" /\ hev'.amount = 0 - hev.amount

\* C25: process_adjust_heap(+k) that succeeds, followed by
\* process_adjust_heap(-k): the second call returns the end-of-heap pointer
\* that was current before the growth and heap_length is back at its earlier
\* value
C25_GrowShrinkRestoresHeap ==
  [][GrowThenShrink =>
       /\ ~hev'.halted
       /\ hev'.ret = hev.old_pages
       /\ heap_length' = hev.old_length]_vars

(***************************************************************************)
(* C26: a growth that cannot be served is undone                           *)
(***************************************************************************)
\* the last call was a growing process_adjust_heap whose process_alloc
\* returned NULL
GrowthFailed ==
  /\ hev.op = "adjust" /\ hev.amount > 0
  /\ hev.alloc = "failed" /\ ~hev.halted

\* C26: when process_alloc fails in a growing process_adjust_heap,
\* heap_length has the value it had before the call and the call returns the
\* end-of-heap pointer of before the call
C26_FailedGrowthUndone ==
  GrowthFailed =>
    /\ heap_length = hev.old_length
    /\ hev.ret = hev.old_pages

\* a growth of a heap that is not empty failed after part of its frames had
\* been acquired
C26_Witness ==
  /\ GrowthFailed
  /\ hev.old_length > 0
  /\ mev.granted > 0

(***************************************************************************)
(* C27: the arguments process_set_args leaves in the process               *)
(***************************************************************************)
\* the pages below ArgsTop that the arguments of the model's calls reach
MaxArgPages == 2

\* the processor's translations, with the PML4 of the process as CR3, of the
\* pages from rsi on
ArgPages ==
  [pg \in 0..(MaxArgPages - 1) |->
     Translate(World, pml4, LinearPlusPages(LinearPageBase(registers.rsi), pg))]

\* what user code of the process reads at a linear address: the processor
\* walks the tables under the PML4 of the process, and every level must be
\* present and open to user code; region holds the translations of ArgPages
UserRead(region, linear) ==
  LET d == LinearDelta(linear, registers.rsi)
      at == IF d.pml4 = 0 /\ d.page \in DOMAIN region
              THEN region[d.page]
              ELSE Translate(World, pml4, linear)
  IN IF /\ at.ok /\ at.user /\ at.frame \in DOMAIN memory
        /\ linear.offset \in DOMAIN memory[at.frame]
       THEN memory[at.frame][linear.offset]
       ELSE NoCell

\* the pointer user code reads at a linear address: its eight bytes
UserReadPointer(region, linear) ==
  LET first == UserRead(region, linear)
  IN IF /\ first.kind = "pointer"
        /\ \A index \in 0..(PointerSize - 1) :
             UserRead(region, LinearAddOffset(linear, index))
               = PointerCell(first.value, index)
       THEN [ok |-> TRUE, value |-> first.value]
       ELSE [ok |-> FALSE, value |-> linear]

\* the last call was a process_set_args that returned true with argc > 0
ArgsSet == gev.op = "set_args" /\ gev.ret /\ gev.argc > 0

\* C27: after process_set_args succeeds with argc > 0, rdi is argc and rsi
\* points to an array in the address space of the process whose i-th entry
\* is a user-space address at which the bytes of argv[i] and a NUL after them
\* are read through the page set of the process
C27_ArgsReadable ==
  ArgsSet =>
    /\ registers.rdi = gev.argc
    /\ registers.rsi # NullPointer
    /\ \E region \in {ArgPages} :
         \A i \in 1..gev.argc :
           \E entry \in {UserReadPointer(
                           region,
                           LinearAddOffset(registers.rsi, PointerSize * (i - 1)))} :
             /\ entry.ok
             /\ LinearPrefix(entry.value) = "0000"
             /\ \A k \in 1..Len(gev.argv[i]) :
                  UserRead(region, LinearAddOffset(entry.value, k - 1))
                    = ByteCell(gev.argv[i][k])
             /\ UserRead(region, LinearAddOffset(entry.value, Len(gev.argv[i])))
                  = ByteCell(0)

\* the call was made in a system call, the arguments take two pages and the
\* frames behind the two pages do not follow one another
C27_Witness ==
  /\ ArgsSet /\ ~gev.kernel_context
  /\ Len(gev.argv[gev.argc]) = MaxArg
  /\ Translate(World, pml4, LinearPlusPages(registers.rsi, 1)).frame
       # Translate(World, pml4, registers.rsi).frame + 1

(***************************************************************************)
(* C31: what paging_unmap leaves mapped                                    *)
(***************************************************************************)
\* the last call was a paging_unmap that returned the number of pages it was
\* asked to unmap
UnmapReturnedAll ==
  /\ pev.op = "unmap" /\ ~pfault /\ pml4 # NULL
  /\ pev.ret = pev.pages

\* C31: after paging_unmap(V, n) has returned n, none of the pages V,
\* V + 4096, ..., V + (n - 1) * 4096 resolves any longer, wherever V lies in
\* its page table, page directory and PDPT and whichever tables on the way
\* are absent
C31_UnmappedRangeNotMapped ==
  UnmapReturnedAll => RangeUnmapped(PS, pev.linear, pev.pages)

(***************************************************************************)
(* C32: what a process_alloc that returned an address has mapped           *)
(***************************************************************************)
\* the last call was a process_alloc that returned its padded address
AllocReturned == qev.op = "alloc" /\ qev.ok /\ pml4 # NULL

\* the PT entry behind page i of the range of the last call
RangeEntry(i) == paging_get_entry_pointers(PS, LinearPlusPages(qev.linear, i))

\* C32: when process_alloc returns an address, every page of the rounded
\* range resolves in the page set of the process, with the user flag, to a
\* frame that this call acquired, and every frame the call took from the free
\* tree is behind a page of the range
C32_AllocatedRangeMapped ==
  AllocReturned =>
    /\ \A i \in 0..(qev.pages - 1) :
         \E e \in {RangeEntry(i)} :
           /\ e.ok /\ e.pt_entry.user = 1
           /\ e.pt_entry.page_physical \in qev.frames
    /\ \A f \in qev.frames :
         \E i \in 0..(qev.pages - 1) :
           \E e \in {RangeEntry(i)} : e.ok /\ e.pt_entry.page_physical = f

(***************************************************************************)
(* C33: what process_free releases                                         *)
(***************************************************************************)
FreeStep == qev'.op = "free" /\ proc_calls' # proc_calls

\* the frames behind the n pages from linear
RangeFrames(ps, linear, n) ==
  {paging_resolve_linear_address(ps, LinearPlusPages(linear, i)).physical.frame :
     i \in {j \in 0..(n - 1) :
              paging_resolve_linear_address(ps, LinearPlusPages(linear, j)).ok}}

\* C33: process_free releases only frames behind pages of the rounded range,
\* releases no frame that was free when it was called, and its count of the
\* pages that remain never goes below zero
C33_FreeStaysInRange ==
  [][FreeStep =>
       /\ qev'.frames \subseteq RangeFrames(PS, qev'.linear, qev'.pages)
       /\ qev'.frames \cap FreeFrames = {}
       /\ ~qev'.wrapped]_vars

(***************************************************************************)
(* C34: the keyboard queue gives back what it accepted                     *)
(***************************************************************************)
\* the accepted events that no dequeue has returned yet
PendingKeys == Len(accepted) - Len(delivered)

\* C34: the events the successful dequeues returned are the first of the
\* events whose enqueue returned true, in their order; a dequeue returns
\* false only when every accepted event has been returned; and an enqueue
\* returns false only when the ring is full, as many events pending as the
\* test of keyboard_enqueue leaves room for
C34_QueueIsFifo ==
  /\ Len(delivered) <= Len(accepted)
  /\ delivered = SubSeq(accepted, 1, Len(delivered))
  /\ (kev.op = "dequeue" /\ ~kev.ret) => PendingKeys = 0
  /\ (kev.op = "enqueue" /\ ~kev.ret) => PendingKeys = KeyboardLength - 1

(***************************************************************************)
(* C35: process_adjust_heap with an amount below zero                      *)
(***************************************************************************)
\* the last call was a process_adjust_heap that returned
AdjustReturned == hev.op = "adjust" /\ ~hev.halted

\* C35: whatever the amount, also one below minus the length of the heap,
\* process_adjust_heap returns an end of the heap at or above
\* PROCESS_HEAP_BASE and leaves a heap_length that has not wrapped around,
\* and a call with an amount of zero or less acquires no frame
C35_ShrinkStaysAboveBase ==
  AdjustReturned =>
    /\ hev.ret >= 0
    /\ heap_length >= 0 /\ HeapPages(heap_length) < AllPages
    /\ hev.amount <= 0 => mev.granted = 0

(***************************************************************************)
(* C36: the scheduler_tick calls that do nothing                           *)
(***************************************************************************)
\* the step is a call of scheduler_tick from the yield system call or from an
\* interrupt handler during the idle halt
TickCall == ev'.op \in {"yield", "irqtick"}

\* (a) the current process has sched.waiting set
TickWhileWaiting == process_current # NULL /\ sched_waiting[process_current]

\* (b) the current process is Running, not waiting, and the run queue is empty
TickWithNothingToRun ==
  /\ process_current # NULL /\ ~sched_waiting[process_current]
  /\ state[process_current] = PROCESS_STATE_RUNNING
  /\ run_queue_front = NULL

\* C36: in both cases scheduler_tick returns to its caller and leaves the run
\* queue, process_current, the state and the sched fields of every process as
\* they are, and process_switch is not called
C36_TickDoesNothing ==
  [][(TickCall /\ (TickWhileWaiting \/ TickWithNothingToRun)) =>
       /\ ~panic'
       /\ ev'.tret = cpu /\ ev'.sw = NONE /\ cpu' = cpu
       /\ run_queue_front' = run_queue_front
       /\ run_queue_back' = run_queue_back
       /\ run_queue_next' = run_queue_next
       /\ process_current' = process_current
       /\ state' = state
       /\ sched_waiting' = sched_waiting]_vars

\* a scheduler_tick called from an interrupt handler during the idle halt
\* has returned although a process had been woken and waits in the run queue
C36_Witness ==
  /\ ev.op = "irqtick" /\ ev.tret = cpu /\ ~panic
  /\ sched_waiting[process_current]
  /\ run_queue_front # NULL


(***************************************************************************)
(* C37: what memory_alloc maps when it grows the kernel heap               *)
(***************************************************************************)
\* the last call was a memory_alloc that grew the heap and returned
HeapGrew == yev.op = "alloc" /\ ~yev.halted /\ yev.ret # NONE /\ yev.pages > 0

\* the PT entry of the kernel page set behind page i of the heap
HeapEntry(i) ==
  paging_get_entry_pointers(KernelPageset(World),
                            LinearPlusPages(MEMORY_LARGE_HEAP_START, i))

\* C37: when memory_alloc has grown the heap, every page that is mapped
\* beyond the old memory_heap_end is backed by a frame that
\* memory_free_region_acquire granted to this call, and memory_heap_end has
\* moved over no more pages than were granted, each of them mapped
C37_HeapGrowthIsGranted ==
  HeapGrew =>
    /\ \A i \in yev.old_end..(yev.old_end + yev.pages) :
         \E e \in {HeapEntry(i)} :
           e.ok => e.pt_entry.page_physical
                     \in yev.base..(yev.base + yev.granted - 1)
    /\ memory_heap_end - yev.old_end <= yev.granted
    /\ \A i \in yev.old_end..(memory_heap_end - 1) : HeapEntry(i).ok

\* a growth that was granted all the pages it asked for
C37_FullGrant == HeapGrew /\ yev.granted = yev.pages /\ yev.pages = 2


(***************************************************************************)
(* C39: the higher half of every PML4 is the kernel's                      *)
(***************************************************************************)
\* the PML4 indices of the higher half
HigherHalf == PAGING_PML4_HALF..(PAGING_PML4_SIZE - 1)

\* entries 256-511 of the PML4 of the process are those of the kernel's
SharesHigherHalf ==
  \A i \in HigherHalf : EntryAt(World, pml4, i) = EntryAt(World, KernelPml4, i)

\* paging_create_pageset has just returned the page set of the process
JustCreated == pev.op = "create" /\ pml4 # NULL /\ ~pfault

\* no entry of the higher half of the kernel's PML4 becomes present
NoNewHigherHalfEntry ==
  \A i \in HigherHalf :
    EntryAt(World, KernelPml4, i).present = 0
      => EntryAt(World, KernelPml4, i).present' = 0

\* C39: after paging_initialize, entries 256-511 of the PML4 of a page set
\* that paging_create_pageset made are always identical to the kernel's;
\* paging_create_pageset leaves entries 0-255 zero; and no later mapping of
\* the kernel (growth of the heap, the alias of process_set_args at
\* 0xffff888800000000) makes an absent higher-half entry of the kernel's PML4
\* present
C39_HigherHalfShared ==
  /\ []((pml4 # NULL /\ ~pfault) => SharesHigherHalf)
  /\ [](JustCreated =>
          \A i \in 0..(PAGING_PML4_HALF - 1) :
            EntryAt(World, pml4, i) = ZeroEntry)
  /\ [][NoNewHigherHalfEntry]_vars

\* the page set of the process exists, the kernel has grown its heap and
\* process_set_args has made its alias in the kernel's half
C39_Witness ==
  /\ pml4 # NULL /\ ~pfault
  /\ HeapGrew /\ yev.granted = yev.pages
  /\ gev.op = "set_args" /\ gev.ret /\ gev.kernel_context
  /\ SharesHigherHalf


(***************************************************************************)
(* C38: page sets of processes and the higher half                         *)
(***************************************************************************)
\* the step is a paging_map or paging_unmap call on the page set of the
\* process
UserPagingCall ==
  /\ pev'.op \in {"map", "unmap"}
  /\ map_calls' # map_calls \/ unmap_calls' # unmap_calls

\* entries 256-511 of the PML4 at table page top
HigherHalfOf(w, top) == [i \in HigherHalf |-> EntryAt(w, top, i)]

\* the table pages behind the present entries of the table pages in tops,
\* of the indices in range
TablesBelow(w, tops, range) ==
  {TableAtFrame(w, w.tables[p][i].page_physical) :
     <<p, i>> \in {x \in tops \X range :
                     /\ x[2] \in DOMAIN w.tables[x[1]]
                     /\ w.tables[x[1]][x[2]].present = 1}} \ {NULL}

\* the table pages reached through entries 256-511 of the kernel's PML4
HigherHalfTables(w) ==
  LET pdpts == TablesBelow(w, {KernelPml4}, HigherHalf)
      pds == TablesBelow(w, pdpts, 0..(PAGING_PDPT_SIZE - 1))
      pts == TablesBelow(w, pds, 0..(PAGING_PD_SIZE - 1))
  IN pdpts \cup pds \cup pts

\* the pages of the call begin in the higher half or run into it
RunsIntoHigherHalf(linear, n) ==
  LinearPlusPages(linear, n - 1).pml4_index >= PAGING_PML4_HALF

\* a paging_map or paging_unmap call on the page set of a process changes no
\* entry 256-511 of its PML4 or of the kernel's and no table reached through
\* them
HigherHalfUntouched ==
  /\ kernel_pml4' = kernel_pml4
  /\ HigherHalfOf(World, pml4)' = HigherHalfOf(World, pml4)
  /\ \A p \in HigherHalfTables(World) : tables'[p] = tables[p]

\* C38: paging_map and paging_unmap on the page set of a process never change
\* PML4 entries 256-511 or a table reached through them, and a request that
\* begins in the higher half or runs into it returns fewer pages than were
\* requested
C38_HigherHalfRefused ==
  [][UserPagingCall =>
       /\ HigherHalfUntouched
       /\ RunsIntoHigherHalf(pev'.linear, pev'.pages)
            => pev'.ret < pev'.pages]_vars

\* the same for paging_map alone and for the tables under paging_unmap
C38_MapRefused ==
  [][UserPagingCall =>
       /\ HigherHalfUntouched
       /\ (pev'.op = "map" /\ RunsIntoHigherHalf(pev'.linear, pev'.pages))
            => pev'.ret < pev'.pages]_vars


(***************************************************************************)
(* C40: what memory_initialize releases                                    *)
(***************************************************************************)
\* memory_initialize has returned
Initialized == iev.op = "initialize" /\ ~iev.halted

\* addr of an entry aligned upwards to a page
AlignedUp(addr) ==
  IF addr % PAGE_SIZE = 0 THEN addr
  ELSE (addr \div PAGE_SIZE + 1) * PAGE_SIZE

\* the whole pages of an entry at or above PREALLOCATED
WholePages(entry) ==
  LET lo == IF AlignedUp(entry.addr) < PREALLOCATED
              THEN PREALLOCATED ELSE AlignedUp(entry.addr)
      hi == entry.addr + entry.len
  IN IF hi > lo THEN (hi - lo) \div PAGE_SIZE ELSE 0

\* the region lies in the entry, page aligned and above the preallocated
\* memory
RegionInside(entry, region) ==
  /\ region.physical_base % PAGE_SIZE = 0
  /\ region.physical_base >= PREALLOCATED
  /\ region.physical_base >= entry.addr
  /\ region.physical_base + region.pages * PAGE_SIZE <= entry.addr + entry.len

\* C40: for every entry of the memory map, the region memory_initialize
\* releases has a page-aligned base at or above 4 MiB and lies inside
\* [addr, addr + len), and an entry that is not available or holds no whole
\* page after alignment and truncation releases nothing
C40_ReleasedInsideEntry ==
  Initialized =>
    \A i \in 1..Len(mmap_buffer) :
      /\ iev.regions[i].released => RegionInside(mmap_buffer[i], iev.regions[i])
      /\ (\/ mmap_buffer[i].type # MULTIBOOT_MEMORY_AVAILABLE
          \/ WholePages(mmap_buffer[i]) = 0) => ~iev.regions[i].released

\* the same for the entries whose addr is page aligned
C40_AlignedInsideEntry ==
  Initialized =>
    \A i \in 1..Len(mmap_buffer) :
      mmap_buffer[i].addr % PAGE_SIZE = 0 =>
        /\ iev.regions[i].released
             => RegionInside(mmap_buffer[i], iev.regions[i])
        /\ (\/ mmap_buffer[i].type # MULTIBOOT_MEMORY_AVAILABLE
            \/ WholePages(mmap_buffer[i]) = 0) => ~iev.regions[i].released

====
